---- MODULE Spec2Model ----
(***************************************************************************)
(* Model of the Hytale mod translation tool: the tagged-text tokenizer and *)
(* segment translator, the source filter, the string collector and the    *)
(* translation writer of translation_manager.py, and the automatic        *)
(* translation handlers of app.py with their translation memory.          *)
(*                                                                         *)
(* A Python str is a sequence of one-character strings.  Python's None is  *)
(* the value None below, which is no sequence of characters.              *)
(***************************************************************************)
EXTENDS Integers, Sequences, FiniteSets, TLC

VARIABLES
    text,                 \* smart_translate / filter: the argument
    pc,                   \* position of the running call
    segments,             \* smart_translate: parse_tagged_text(text)
    translated_segments,  \* smart_translate: the list being rebuilt
    errors,               \* smart_translate: errors collected so far
    seg_idx,              \* smart_translate: index into text_segments
    result,               \* returned text (or filter decision)
    error,                \* returned error
    calls,                \* history: the calls made to translate_func
    path,                 \* history: which return path the call took
    decision,             \* _should_skip_source: the value returned
    tree,                 \* the extracted mod: relative path -> file content
    translate_rows,       \* the catalogue shown for editing
    before,               \* history: the tree as the last save found it
    saves,                \* history: saves made since rows last changed
    save_ok,              \* history: the last save returned without raising
    memory_file,          \* translation_memory.json: source -> translation
    memory,               \* the memory dict of the running handler
    _segment_cache,       \* app._segment_cache: trimmed segment -> translation
    translate_entries,    \* the texts of the entry widgets, one per row
    row_idx,              \* position of the running handler's loop over rows
    last_error,           \* _translate_all: last_error
    ok,                   \* counter ok of the running handler
    fail,                 \* counter fail of the running handler
    message,              \* the message box shown when the handler ended
    mod_idx,              \* _batch_translate: position in the list of mods
    batch_rows,           \* _batch_translate: rows of the mod being processed
    attempts,             \* history: the _auto_translate calls of the handler
    handler_runs,         \* history: how many translation handlers were started
    extracted_dirs,       \* .extracted: number of a mod -> its extracted directory
    backend_calls,        \* history: the segments the backend translated, and those
                          \* it was asked for again afterwards
    output_file,          \* pack_mod: the file at output_path
    temp_file,            \* pack_mod: the file at output_path + ".tmp"
    backup_file,          \* pack_mod: the file backups/<name>.bak
    pack_backup,          \* pack_mod: the argument backup
    pack_todo,            \* pack_mod: the files of the directory not yet written
    pack_ret,             \* pack_mod: "True", "False" or "raised" once the call ended
    output_before         \* history: the file at output_path when the call began

vars == <<text, pc, segments, translated_segments, errors, seg_idx, result, error, calls,
          path, decision, tree, translate_rows, before, saves, save_ok,
          memory_file, memory, _segment_cache, translate_entries, row_idx, last_error, ok, fail,
          message, mod_idx, batch_rows, attempts, handler_runs, extracted_dirs,
          backend_calls, output_file, temp_file, backup_file, pack_backup, pack_todo, pack_ret,
          output_before>>

pack_vars == <<output_file, temp_file, backup_file, pack_backup, pack_todo, pack_ret,
               output_before>>

window_vars == <<memory_file, memory, _segment_cache, translate_entries, row_idx, last_error, ok,
                 fail, message, mod_idx, batch_rows, attempts, handler_runs,
                 extracted_dirs, backend_calls>>

file_vars == <<tree, translate_rows, before, saves, save_ok>>

call_vars == <<text, segments, translated_segments, errors, seg_idx, result, error, calls,
               path, decision>>

(***************************************************************************)
(* Strings                                                                 *)
(***************************************************************************)
None == <<"None">>

Truthy(x) == x /= None /\ x /= <<>>

Min(S) == CHOOSE x \in S : \A y \in S : x <= y

LowerLetters == {"a","b","c","d","e","f","g","h","i","j","k","l","m",
                 "n","o","p","q","r","s","t","u","v","w","x","y","z"}

UpperLetters == {"A","B","C","D","E","F","G","H","I","J","K","L","M",
                 "N","O","P","Q","R","S","T","U","V","W","X","Y","Z"}

Digits == {"0","1","2","3","4","5","6","7","8","9"}

IsAsciiLetter(c) == c \in LowerLetters \cup UpperLetters

\* str.isspace for the characters of the model
IsSpace(c) == c \in {" ", "\n", "\t", "\r"}

RECURSIVE lstrip(_)
lstrip(s) == IF s /= <<>> /\ IsSpace(Head(s)) THEN lstrip(Tail(s)) ELSE s

RECURSIVE rstrip(_)
rstrip(s) ==
    IF s /= <<>> /\ IsSpace(s[Len(s)]) THEN rstrip(SubSeq(s, 1, Len(s) - 1)) ELSE s

strip(s) == rstrip(lstrip(s))

RECURSIVE Join(_)
Join(ss) == IF ss = <<>> THEN <<>> ELSE Head(ss) \o Join(Tail(ss))

StringsUpTo(alphabet, n) == UNION {[1..m -> alphabet] : m \in 0..n}

(***************************************************************************)
(* _TAG_PATTERN and parse_tagged_text                                      *)
(***************************************************************************)
\* Length of the match of _TAG_PATTERN that starts at position i (1-based) of
\* text, 0 when the pattern does not match there.  The four alternatives
\* start with four different characters; re.IGNORECASE makes [A-Z] any
\* ASCII letter and \\n match a backslash followed by n or N.
TagMatchLen(t, i) ==
    LET n == Len(t)
        c == t[i]
        gt == {j \in (i + 1)..n : t[j] = ">"}
        firstGt == IF gt = {} THEN 0 ELSE Min(gt)
        nonL == {j \in (i + 1)..n : ~IsAsciiLetter(t[j])}
        firstNonL == IF nonL = {} THEN 0 ELSE Min(nonL)
    IN  IF c = "<" /\ firstGt >= i + 2 THEN firstGt - i + 1
        ELSE IF c = "[" /\ firstNonL >= i + 2 /\ t[firstNonL] = "]" THEN firstNonL - i + 1
        ELSE IF c = "\\" /\ i + 1 <= n /\ t[i + 1] \in {"n", "N"} THEN 2
        ELSE IF c = " " /\ i + 3 <= n /\ t[i + 1] = "\\" /\ t[i + 2] \in {"n", "N"}
                /\ t[i + 3] = " " THEN 4
        ELSE 0

\* The loop over _TAG_PATTERN.finditer(text): pos is the scan position
\* (1-based), last_end the number of characters already covered.
RECURSIVE ScanTags(_, _, _, _)
ScanTags(t, pos, last_end, res) ==
    IF pos > Len(t) THEN [result |-> res, last_end |-> last_end]
    ELSE LET m == TagMatchLen(t, pos) IN
         IF m = 0 THEN ScanTags(t, pos + 1, last_end, res)
         ELSE LET r1 == IF pos - 1 > last_end
                        THEN Append(res, <<SubSeq(t, last_end + 1, pos - 1), FALSE>>)
                        ELSE res
              IN  ScanTags(t, pos + m, pos - 1 + m,
                           Append(r1, <<SubSeq(t, pos, pos + m - 1), TRUE>>))

\* mutant: the text after the last tag is forgotten
parse_tagged_text_no_tail(t) ==
    IF t = <<>> THEN <<>> ELSE ScanTags(t, 1, 0, <<>>).result

parse_tagged_text(t) ==
    IF t = <<>> THEN <<>>
    ELSE LET s == ScanTags(t, 1, 0, <<>>) IN
         IF s.last_end < Len(t)
         THEN Append(s.result, <<SubSeq(t, s.last_end + 1, Len(t)), FALSE>>)
         ELSE s.result

has_markup(t) == t /= <<>> /\ \E i \in 1..Len(t) : TagMatchLen(t, i) > 0

(***************************************************************************)
(* smart_translate.  translate_func is injected: each call to it is a     *)
(* step whose outcome (translated, error) is chosen from Responses.       *)
(***************************************************************************)
TrValues == {None, <<>>, <<"X">>}

ErrValues == {None, <<>>, <<"e", "1">>, <<"e", "2">>}

Responses == TrValues \X ErrValues

\* [(i, seg) for i, (seg, is_tag) in enumerate(segments) if not is_tag and seg.strip()]
text_segments(segs) ==
    SelectSeq([i \in 1..Len(segs) |-> i],
              LAMBDA i : ~segs[i][2] /\ strip(segs[i][1]) /= <<>>)

AllTags(segs) == \A i \in 1..Len(segs) : segs[i][2]

AnyTag(segs) == \E i \in 1..Len(segs) : segs[i][2]

\* a direct call of parse_tagged_text(text)
Tokenize ==
    /\ pc = "start"
    /\ segments' = parse_tagged_text(text)
    /\ pc' = "parsed"
    /\ path' = "tokenize"
    /\ UNCHANGED <<text, translated_segments, errors, seg_idx, result, error, calls, decision>>
    /\ UNCHANGED file_vars
    /\ UNCHANGED window_vars
    /\ UNCHANGED pack_vars

\* smart_translate up to its first call of translate_func, or to its return
smart_translate_begin ==
    /\ pc = "start"
    /\ IF text = <<>> \/ strip(text) = <<>>
       THEN /\ result' = None
            /\ error' = None
            /\ pc' = "done"
            /\ path' = "blank"
            /\ UNCHANGED <<segments, translated_segments, errors, seg_idx>>
       ELSE LET segs == parse_tagged_text(text) IN
            /\ segments' = segs
            /\ IF AllTags(segs) \/ ~AnyTag(segs)
               THEN /\ pc' = "delegate"
                    /\ path' = "delegate"
                    /\ UNCHANGED <<translated_segments, errors, seg_idx, result, error>>
               ELSE IF text_segments(segs) = <<>>
               THEN /\ result' = text
                    /\ error' = None
                    /\ pc' = "done"
                    /\ path' = "markup_only"
                    /\ UNCHANGED <<translated_segments, errors, seg_idx>>
               ELSE /\ translated_segments' = segs
                    /\ errors' = <<>>
                    /\ seg_idx' = 1
                    /\ pc' = "loop"
                    /\ path' = "mixed"
                    /\ UNCHANGED <<result, error>>
    /\ UNCHANGED <<text, calls, decision>>
    /\ UNCHANGED file_vars
    /\ UNCHANGED window_vars
    /\ UNCHANGED pack_vars

\* return translate_func(text)
smart_translate_delegate ==
    /\ pc = "delegate"
    /\ \E r \in Responses :
        /\ calls' = Append(calls, [arg |-> text, tr |-> r[1], err |-> r[2]])
        /\ result' = r[1]
        /\ error' = r[2]
    /\ pc' = "done"
    /\ UNCHANGED <<text, segments, translated_segments, errors, seg_idx, path, decision>>
    /\ UNCHANGED file_vars
    /\ UNCHANGED window_vars
    /\ UNCHANGED pack_vars

\* mutant: the translated core is stored without the segment's own whitespace
smart_translate_segment_unwrapped ==
    /\ pc = "loop"
    /\ seg_idx <= Len(text_segments(segments))
    /\ LET idx == text_segments(segments)[seg_idx]
           seg == segments[idx][1]
           seg_clean == strip(seg)
       IN  \E r \in Responses :
            /\ calls' = Append(calls, [arg |-> seg_clean, tr |-> r[1], err |-> r[2]])
            /\ translated_segments' =
                 IF Truthy(r[1])
                 THEN [translated_segments EXCEPT ![idx] = <<r[1], FALSE>>]
                 ELSE translated_segments
            /\ errors' = IF Truthy(r[2]) THEN Append(errors, r[2]) ELSE errors
    /\ seg_idx' = seg_idx + 1
    /\ UNCHANGED <<text, pc, segments, result, error, path, decision>>
    /\ UNCHANGED file_vars
    /\ UNCHANGED window_vars
    /\ UNCHANGED pack_vars

\* one iteration of "for idx, seg in text_segments"
smart_translate_segment ==
    /\ pc = "loop"
    /\ seg_idx <= Len(text_segments(segments))
    /\ LET idx == text_segments(segments)[seg_idx]
           seg == segments[idx][1]
           seg_clean == strip(seg)
           leading == SubSeq(seg, 1, Len(seg) - Len(lstrip(seg)))
           trailing == SubSeq(seg, Len(rstrip(seg)) + 1, Len(seg))
       IN  \E r \in Responses :
            /\ calls' = Append(calls, [arg |-> seg_clean, tr |-> r[1], err |-> r[2]])
            /\ translated_segments' =
                 IF Truthy(r[1])
                 THEN [translated_segments EXCEPT ![idx] = <<leading \o r[1] \o trailing, FALSE>>]
                 ELSE translated_segments
            /\ errors' = IF Truthy(r[2]) THEN Append(errors, r[2]) ELSE errors
    /\ seg_idx' = seg_idx + 1
    /\ UNCHANGED <<text, pc, segments, result, error, path, decision>>
    /\ UNCHANGED file_vars
    /\ UNCHANGED window_vars
    /\ UNCHANGED pack_vars

\* mutant: the last error is returned instead of the first
smart_translate_finish_last_error ==
    /\ pc = "loop"
    /\ seg_idx > Len(text_segments(segments))
    /\ result' = Join([i \in 1..Len(translated_segments) |-> translated_segments[i][1]])
    /\ error' = IF errors /= <<>> THEN errors[Len(errors)] ELSE None
    /\ pc' = "done"
    /\ UNCHANGED <<text, segments, translated_segments, errors, seg_idx, calls, path, decision>>
    /\ UNCHANGED file_vars
    /\ UNCHANGED window_vars
    /\ UNCHANGED pack_vars

\* the join and the return after the loop
smart_translate_finish ==
    /\ pc = "loop"
    /\ seg_idx > Len(text_segments(segments))
    /\ result' = Join([i \in 1..Len(translated_segments) |-> translated_segments[i][1]])
    /\ error' = IF errors /= <<>> THEN errors[1] ELSE None
    /\ pc' = "done"
    /\ UNCHANGED <<text, segments, translated_segments, errors, seg_idx, calls, path, decision>>
    /\ UNCHANGED file_vars
    /\ UNCHANGED window_vars
    /\ UNCHANGED pack_vars

\* Bound on the length of the enumerated texts
MaxTextLen == 4

TextAlphabet == {"<", ">", "[", "]", "\\", "n", " "}

\* "Defeats <color is=\"red\">Alive</color> in \n battle", shortened
ScenarioText ==
    <<"D", "e", " ", "<", "c", " ", "i", "s", "=", "r", ">", "A", "l", "<", "/", "c", ">",
      " ", "i", "n", " ", "\\", "n", " ", "b", "a">>

ExtraTexts ==
    { ScenarioText,
      <<" ", "n", " ", "<", "n", ">", " ", "n", "\\", "n", "n", " ">>,
      <<"[", "T", "M", "P", "]", " ", "n", " ", "<", "n", ">", " ", " ", "[", "n", "]", "n">> }

Texts == StringsUpTo(TextAlphabet, MaxTextLen) \cup ExtraTexts

\* no smart_translate call is running
TranslateIdle ==
    /\ segments = <<>>
    /\ translated_segments = <<>>
    /\ errors = <<>>
    /\ seg_idx = 0
    /\ result = None
    /\ error = None
    /\ calls = <<>>
    /\ path = "none"

\* no message box has been shown
\* the backend was not asked yet
NoCalls == [translated |-> {}, repeated |-> {}]

NoMessage == [kind |-> "none", ok |-> 0, fail |-> 0, error |-> None]

\* no handler of the window has run
HandlersIdle ==
    /\ memory = <<>>
    /\ _segment_cache = <<>>
    /\ translate_entries = <<>>
    /\ row_idx = 0
    /\ last_error = None
    /\ ok = 0
    /\ fail = 0
    /\ message = NoMessage
    /\ mod_idx = 0
    /\ batch_rows = <<>>
    /\ attempts = <<>>
    /\ handler_runs = 0
    /\ extracted_dirs = <<>>
    /\ backend_calls = NoCalls

\* the window as it is constructed, with no translation memory on disk
WindowIdle ==
    /\ memory_file = <<>>
    /\ HandlersIdle

\* no mod is open
\* Path.exists() is false: there is no file at the path
NoFile == [members |-> <<>>, closed |-> FALSE, exists |-> FALSE]

\* no call of pack_mod is running and none has run
PackIdle ==
    /\ output_file = NoFile
    /\ temp_file = NoFile
    /\ backup_file = NoFile
    /\ pack_backup = FALSE
    /\ pack_todo = <<>>
    /\ pack_ret = "running"
    /\ output_before = NoFile

NoTree ==
    /\ tree = <<>>
    /\ translate_rows = <<>>
    /\ before = <<>>
    /\ saves = 0
    /\ save_ok = TRUE

InitTranslate ==
    /\ text \in Texts
    /\ pc = "start"
    /\ TranslateIdle
    /\ WindowIdle
    /\ PackIdle
    /\ decision = FALSE
    /\ NoTree

NextTranslate ==
    \/ Tokenize
    \/ smart_translate_begin
    \/ smart_translate_delegate
    \/ smart_translate_segment
    \/ smart_translate_finish

SpecTranslate == InitTranslate /\ [][NextTranslate]_vars

(***************************************************************************)
(* _should_skip_source                                                     *)
(***************************************************************************)
IsAlnum(c) == IsAsciiLetter(c) \/ c \in Digits

Has(s, c) == \E i \in 1..Len(s) : s[i] = c

HasPair(s, a, b) == \E i \in 1..(Len(s) - 1) : s[i] = a /\ s[i + 1] = b

\* "{" in s and "}" in s and re.search(r"\{[a-zA-Z_%]", s)
PlaceholderRule(s) ==
    /\ Has(s, "{")
    /\ Has(s, "}")
    /\ \E i \in 1..(Len(s) - 1) :
         s[i] = "{" /\ (IsAsciiLetter(s[i + 1]) \/ s[i + 1] \in {"_", "%"})

\* "%s" in s or "%d" in s or "%(" in s
PrintfRule(s) == HasPair(s, "%", "s") \/ HasPair(s, "%", "d") \/ HasPair(s, "%", "(")

\* mutant: the two patterns without \s*
PartialPlaceholderRule_adjacent(s) == HasPair(s, "_", "}") \/ HasPair(s, "{", "_")

\* re.search(r"_\s*}", s) or re.search(r"\{\s*_", s)
PartialPlaceholderRule(s) ==
    \E i \in 1..Len(s) : \E j \in (i + 1)..Len(s) :
        /\ \A m \in (i + 1)..(j - 1) : IsSpace(s[m])
        /\ \/ s[i] = "_" /\ s[j] = "}"
           \/ s[i] = "{" /\ s[j] = "_"

\* not s.replace("_", "").replace(" ", "").replace("\n", "")
OnlyFillerRule(s) == \A i \in 1..Len(s) : s[i] \in {"_", " ", "\n"}

\* snake_case identifier without spaces
SnakeCaseRule(s) ==
    /\ ~Has(s, " ")
    /\ ~Has(s, "\n")
    /\ Has(s, "_")
    /\ \A i \in 1..Len(s) : IsAlnum(s[i]) \/ s[i] = "_"

\* part * count
RECURSIVE Repeat(_, _)
Repeat(part, count) == IF count = 0 THEN <<>> ELSE part \o Repeat(part, count - 1)

\* mutant: range(1, len(s) // 2), the half-length part is never tried
RepeatedWordRule_short_range(s) ==
    /\ ~Has(s, " ")
    /\ ~Has(s, "\n")
    /\ Len(s) >= 2
    /\ \A i \in 1..Len(s) : IsAsciiLetter(s[i])
    /\ \E n \in 1..((Len(s) \div 2) - 1) :
         /\ Len(s) % n = 0
         /\ Repeat(SubSeq(s, 1, n), Len(s) \div n) = s

\* merged repeated words: for n in range(1, len(s) // 2 + 1)
RepeatedWordRule(s) ==
    /\ ~Has(s, " ")
    /\ ~Has(s, "\n")
    /\ Len(s) >= 2
    /\ \A i \in 1..Len(s) : IsAsciiLetter(s[i])
    /\ \E n \in 1..(Len(s) \div 2) :
         /\ Len(s) % n = 0
         /\ Repeat(SubSeq(s, 1, n), Len(s) \div n) = s

_should_skip_source(t) ==
    IF t = <<>> \/ strip(t) = <<>> THEN TRUE
    ELSE LET s == strip(t) IN
         IF PlaceholderRule(s) THEN TRUE
         ELSE IF PrintfRule(s) THEN TRUE
         ELSE IF PartialPlaceholderRule(s) THEN TRUE
         ELSE IF OnlyFillerRule(s) THEN TRUE
         ELSE IF SnakeCaseRule(s) THEN TRUE
         ELSE RepeatedWordRule(s)

\* a call of _should_skip_source(text)
should_skip_call ==
    /\ pc = "start"
    /\ decision' = _should_skip_source(text)
    /\ pc' = "filtered"
    /\ UNCHANGED <<text, segments, translated_segments, errors, seg_idx, result, error,
                   calls, path>>
    /\ UNCHANGED file_vars
    /\ UNCHANGED window_vars
    /\ UNCHANGED pack_vars

\* Bound on the length of the enumerated filter inputs
MaxFilterLen == 4

FilterAlphabet == {"{", "}", "_", "%", "s", "d", "(", " ", "\n", "1"}

Alive == <<"A", "l", "i", "v", "e">>

Item_Name_ID == <<"I", "t", "e", "m", "_", "N", "a", "m", "e", "_", "I", "D">>

Test_Sword == <<"T", "e", "s", "t", " ", "S", "w", "o", "r", "d">>

A_weapon_sword ==
    <<"A", " ", "{", "w", "e", "a", "p", "o", "n", "}", " ", "s", "w", "o", "r", "d">>

FilterTexts ==
    StringsUpTo(FilterAlphabet, MaxFilterLen)
        \cup {Alive, Alive \o Alive, Alive \o <<" ">> \o Alive, Item_Name_ID, Test_Sword,
              A_weapon_sword}

InitFilter ==
    /\ text \in FilterTexts
    /\ pc = "start"
    /\ TranslateIdle
    /\ WindowIdle
    /\ PackIdle
    /\ decision = FALSE
    /\ NoTree

NextFilter == should_skip_call

SpecFilter == InitFilter /\ [][NextFilter]_vars

(***************************************************************************)
(* Text helpers of the collector and the writer                            *)
(***************************************************************************)
\* the characters of the model in code point order
AsciiOrder ==
    <<"\t", "\n", "\r", " ", "!", "\"", "#", "$", "%", "&", "'", "(", ")", "*", "+", ",",
      "-", ".", "/", "0", "1", "2", "3", "4", "5", "6", "7", "8", "9", ":", ";", "<", "=",
      ">", "?", "@", "A", "B", "C", "D", "E", "F", "G", "H", "I", "J", "K", "L", "M", "N",
      "O", "P", "Q", "R", "S", "T", "U", "V", "W", "X", "Y", "Z", "[", "\\", "]", "^", "_",
      "a", "b", "c", "d", "e", "f", "g", "h", "i", "j", "k", "l", "m", "n", "o", "p",
      "q", "r", "s", "t", "u", "v", "w", "x", "y", "z", "{", "|", "}", "~">>

Code(c) == CHOOSE i \in 1..Len(AsciiOrder) : AsciiOrder[i] = c

\* a < b for Python str
RECURSIVE StrLess(_, _)
StrLess(a, b) ==
    IF b = <<>> THEN FALSE
    ELSE IF a = <<>> THEN TRUE
    ELSE IF Head(a) = Head(b) THEN StrLess(Tail(a), Tail(b))
    ELSE Code(Head(a)) < Code(Head(b))

\* str.lower
LowerChar(c) ==
    IF c \in UpperLetters THEN AsciiOrder[Code(c) + (Code("a") - Code("A"))] ELSE c

Lower(s) == [i \in 1..Len(s) |-> LowerChar(s[i])]

\* s.find(w) + 1, 0 when w is not in s
IndexOf(s, w) ==
    LET at == {i \in 1..(Len(s) - Len(w) + 1) : SubSeq(s, i, i + Len(w) - 1) = w} IN
    IF at = {} THEN 0 ELSE Min(at)

\* s.replace(w, r, 1)
ReplaceFirst(s, w, r) ==
    LET i == IndexOf(s, w) IN
    IF i = 0 THEN s
    ELSE SubSeq(s, 1, i - 1) \o r \o SubSeq(s, i + Len(w), Len(s))

\* str(i) for i >= 0
RECURSIVE IntToStr(_)
IntToStr(i) ==
    IF i < 10 THEN <<AsciiOrder[Code("0") + i]>>
    ELSE IntToStr(i \div 10) \o <<AsciiOrder[Code("0") + (i % 10)]>>

\* str.splitlines: the lines of s without their line ends ("\r\n" is one)
RECURSIVE SplitLines(_)
SplitLines(s) ==
    LET brk == {i \in 1..Len(s) : s[i] \in {"\n", "\r"}}
        b == Min(brk)
        e == IF s[b] = "\r" /\ b < Len(s) /\ s[b + 1] = "\n" THEN b + 1 ELSE b
    IN  IF s = <<>> THEN <<>>
        ELSE IF brk = {} THEN <<s>>
        ELSE <<SubSeq(s, 1, b - 1)>> \o SplitLines(SubSeq(s, e + 1, Len(s)))

\* "\n".join(lines)
RECURSIVE JoinLines(_)
JoinLines(ls) ==
    IF ls = <<>> THEN <<>>
    ELSE IF Len(ls) = 1 THEN ls[1]
    ELSE ls[1] \o <<"\n">> \o JoinLines(Tail(ls))

(***************************************************************************)
(* A Python dict is the sequence of its (key, value) pairs in insertion   *)
(* order.                                                                  *)
(***************************************************************************)
DictHas(d, key) == \E i \in 1..Len(d) : d[i][1] = key

DictGet(d, key, default) ==
    IF DictHas(d, key) THEN d[CHOOSE i \in 1..Len(d) : d[i][1] = key][2] ELSE default

\* d[key] = v
DictSet(d, key, v) ==
    IF DictHas(d, key)
    THEN [i \in 1..Len(d) |-> IF d[i][1] = key THEN <<key, v>> ELSE d[i]]
    ELSE Append(d, <<key, v>>)

\* d.update(e)
RECURSIVE DictUpdate(_, _)
DictUpdate(d, e) ==
    IF e = <<>> THEN d ELSE DictUpdate(DictSet(d, e[1][1], e[1][2]), Tail(e))

\* sorted(d.items())
RECURSIVE SortedItems(_)
SortedItems(d) ==
    IF d = <<>> THEN <<>>
    ELSE LET m == CHOOSE i \in 1..Len(d) :
                     \A j \in 1..Len(d) : j /= i => ~StrLess(d[j][1], d[i][1])
         IN  <<d[m]>> \o SortedItems(SubSeq(d, 1, m - 1) \o SubSeq(d, m + 1, Len(d)))

(***************************************************************************)
(* JSON documents.  A decoded document is a tagged value: a string, an    *)
(* object (a dict: its pairs in order), an array, or another scalar.  A   *)
(* file that json.loads rejects holds Malformed.                          *)
(***************************************************************************)
JStr(s) == [t |-> "str", v |-> s]

JObj(pairs) == [t |-> "obj", v |-> pairs]

JArr(items) == [t |-> "arr", v |-> items]

\* a number or true: truthy and no str, dict or list
JNum == [t |-> "num", v |-> <<>>]

Malformed == [t |-> "bad", v |-> <<>>]

\* Python truthiness of a decoded value
JTruthy(j) == j.t = "num" \/ (j.t \in {"str", "obj", "arr"} /\ j.v /= <<>>)

\* a value of a row's "translated" that is truthy and not a str
NonStr == <<"NonStr">>

\* the value dict.get returns for a row's "translated"
AsTranslated(d, key) ==
    IF ~DictHas(d, key) THEN None
    ELSE LET j == DictGet(d, key, JNum) IN
         IF j.t = "str" THEN j.v ELSE IF JTruthy(j) THEN NonStr ELSE None

(***************************************************************************)
(* _is_translation_key                                                     *)
(***************************************************************************)
\* s.split(sep) for a one-character separator
RECURSIVE SplitAny(_, _)
SplitAny(s, seps) ==
    LET at == {i \in 1..Len(s) : s[i] \in seps} IN
    IF at = {} THEN <<s>>
    ELSE <<SubSeq(s, 1, Min(at) - 1)>> \o SplitAny(SubSeq(s, Min(at) + 1, Len(s)), seps)

Split(s, sep) == SplitAny(s, {sep})

\* s.replace(c, "") for a one-character c
Without(s, c) == SelectSeq(s, LAMBDA x : x /= c)

\* str.isalnum
IsAlnumStr(s) == s /= <<>> /\ \A i \in 1..Len(s) : IsAlnum(s[i])

\* mutant: a part is judged by its characters alone
_is_translation_key_by_charset(t) ==
    IF t = <<>> \/ strip(t) = <<>> THEN FALSE
    ELSE LET s == strip(t)
             parts == Split(s, ".")
         IN  IF Has(s, " ") THEN FALSE
             ELSE IF Len(parts) < 2 THEN FALSE
             ELSE \A i \in 1..Len(parts) :
                     \A n \in 1..Len(parts[i]) :
                        IsAlnum(parts[i][n]) \/ parts[i][n] \in {"_", "-"}

_is_translation_key(t) ==
    IF t = <<>> \/ strip(t) = <<>> THEN FALSE
    ELSE LET s == strip(t)
             parts == Split(s, ".")
         IN  IF Has(s, " ") THEN FALSE
             ELSE IF Len(parts) < 2 THEN FALSE
             ELSE \A i \in 1..Len(parts) :
                     parts[i] /= <<>> /\ IsAlnumStr(Without(Without(parts[i], "_"), "-"))

\* not _is_translation_key(v) and not _should_skip_source(v)
Collectable(v) == ~_is_translation_key(v) /\ ~_should_skip_source(v)

\* a call _is_translation_key(text)
is_translation_key_call ==
    /\ pc = "start"
    /\ decision' = _is_translation_key(text)
    /\ pc' = "keyed"
    /\ UNCHANGED <<text, segments, translated_segments, errors, seg_idx, result, error,
                   calls, path>>
    /\ UNCHANGED file_vars
    /\ UNCHANGED window_vars
    /\ UNCHANGED pack_vars

\* Bound on the length of the enumerated key candidates
MaxKeyLen == 4

KeyAlphabet == {"a", "B", "1", ".", "_", "-", " ", "\n"}

Items_Sword_name ==
    <<"i", "t", "e", "m", "s", ".", "S", "w", "o", "r", "d", ".", "n", "a", "m", "e">>

KeyTexts ==
    StringsUpTo(KeyAlphabet, MaxKeyLen)
        \cup {Items_Sword_name, Test_Sword, <<"L", "o", "a", "d", ".", ".", ".">>}

InitKey ==
    /\ text \in KeyTexts
    /\ pc = "start"
    /\ TranslateIdle
    /\ WindowIdle
    /\ PackIdle
    /\ decision = FALSE
    /\ NoTree

NextKey == is_translation_key_call

SpecKey == InitKey /\ [][NextKey]_vars

(***************************************************************************)
(* The extracted tree: a function from the relative paths of its files (a *)
(* path is the tuple of its parts) to their contents: a decoded document  *)
(* for a .json file, the text for a .lang or .ui file.                    *)
(***************************************************************************)
K_Name == <<"N", "a", "m", "e">>

K_Description == <<"D", "e", "s", "c", "r", "i", "p", "t", "i", "o", "n">>

K_Authors == <<"A", "u", "t", "h", "o", "r", "s">>

Row(type, rel, key, source, translated) ==
    [type |-> type, file_rel |-> rel, key |-> key, source |-> source,
     translated |-> translated]

IsFile(tr, p) == p \in DOMAIN tr

\* the condition "X.get(key) and not _is_translation_key(X[key]) and not
\* _should_skip_source(X[key])" of the manifest scan: "raise" when the value
\* is truthy and no str (it has no strip), else "row" or "skip"
ManifestField(obj, key) ==
    IF ~DictHas(obj, key) THEN "skip"
    ELSE LET j == DictGet(obj, key, JNum) IN
         IF ~JTruthy(j) THEN "skip"
         ELSE IF j.t /= "str" THEN "raise"
         ELSE IF Collectable(j.v) THEN "row" ELSE "skip"

\* the loop over data.get("Authors") or []
RECURSIVE ManifestAuthors(_, _, _)
ManifestAuthors(rel, items, i) ==
    IF i > Len(items) THEN <<>>
    ELSE LET a == items[i]
             f == IF a.t = "obj" THEN ManifestField(a.v, K_Name) ELSE "skip"
         IN  IF f = "raise" THEN <<>>
             ELSE (IF f = "row"
                   THEN <<Row("manifest", rel,
                              K_Authors \o <<"[">> \o IntToStr(i - 1) \o <<"]", ".">> \o K_Name,
                              DictGet(a.v, K_Name, JNum).v, None)>>
                   ELSE <<>>)
                  \o ManifestAuthors(rel, items, i + 1)

\* the body of the try block of the manifest scan
ManifestFileRows(rel, data) ==
    IF data.t /= "obj" THEN <<>>
    ELSE LET n == ManifestField(data.v, K_Name)
             d == ManifestField(data.v, K_Description)
             nameRow == IF n = "row"
                        THEN <<Row("manifest", rel, K_Name, DictGet(data.v, K_Name, JNum).v, None)>>
                        ELSE <<>>
             descRow == IF d = "row"
                        THEN <<Row("manifest", rel, K_Description,
                                   DictGet(data.v, K_Description, JNum).v, None)>>
                        ELSE <<>>
             au == DictGet(data.v, K_Authors, JArr(<<>>))
         IN  IF n = "raise" THEN <<>>
             ELSE IF d = "raise" THEN nameRow
             ELSE nameRow \o descRow
                    \o (IF au.t = "arr" THEN ManifestAuthors(rel, au.v, 1) ELSE <<>>)

\* 1) manifest.json, else pack.json
ManifestRows(tr) ==
    IF IsFile(tr, <<"manifest.json">>)
    THEN ManifestFileRows(<<"manifest.json">>, tr[<<"manifest.json">>])
    ELSE IF IsFile(tr, <<"pack.json">>)
    THEN ManifestFileRows(<<"pack.json">>, tr[<<"pack.json">>])
    ELSE <<>>

(***************************************************************************)
(* .lang files                                                            *)
(***************************************************************************)
\* one line of parse_lang_content
ParseLangLine(res, raw) ==
    LET line == strip(raw)
        eq == IndexOf(line, <<"=">>)
    IN  IF line = <<>> \/ Head(line) = "#" THEN res
        ELSE IF eq = 0 THEN res
        ELSE DictSet(res, strip(SubSeq(line, 1, eq - 1)),
                     strip(SubSeq(line, eq + 1, Len(line))))

RECURSIVE ParseLangLines(_, _)
ParseLangLines(res, ls) ==
    IF ls = <<>> THEN res ELSE ParseLangLines(ParseLangLine(res, Head(ls)), Tail(ls))

parse_lang_content(t) == ParseLangLines(<<>>, SplitLines(t))

\* lang_to_content(entries, use_spaces=False)
lang_to_content(entries) ==
    LET items == SortedItems(entries) IN
    JoinLines([i \in 1..Len(items) |-> items[i][1] \o <<"=">> \o items[i][2]])

Benchcategories_ ==
    <<"b", "e", "n", "c", "h", "c", "a", "t", "e", "g", "o", "r", "i", "e", "s", ".">>

BenchCategories_ ==
    <<"b", "e", "n", "c", "h", "C", "a", "t", "e", "g", "o", "r", "i", "e", "s", ".">>

_key_case_variant(key) ==
    IF IndexOf(Lower(key), Benchcategories_) /= 0
    THEN IF IndexOf(key, Benchcategories_) /= 0
         THEN ReplaceFirst(key, Benchcategories_, BenchCategories_)
         ELSE ReplaceFirst(key, BenchCategories_, Benchcategories_)
    ELSE key

\* the alias loop of save_all_translations: for k, v in list(d.items())
RECURSIVE AddCaseAliases(_, _)
AddCaseAliases(d, items) ==
    IF items = <<>> THEN d
    ELSE LET key == items[1][1]
             alt == _key_case_variant(key)
         IN  AddCaseAliases(IF alt /= key /\ ~DictHas(d, alt)
                            THEN DictSet(d, alt, items[1][2]) ELSE d,
                            Tail(items))

(***************************************************************************)
(* Paths.  A part of a path is a name; what the code asks about a name    *)
(* (its suffix, its first letters, its length) is tabulated for the names *)
(* of the model.                                                           *)
(***************************************************************************)
LangFileNames == {"x.lang", "en_items.lang"}

JsonFileNames == {"manifest.json", "pack.json", "item.json", "en_US.json", "ru_RU.json"}

UiFileNames == {"hud.ui"}

\* name.startswith("ru")
StartsWithRu(name) == name \in {"ru-RU", "ru_RU.json"}

\* name.startswith("en")
StartsWithEn(name) == name \in {"en-US", "en_items.lang", "en_US.json"}

\* len(name) == 5 and name[2] == "-"
LocaleShaped(name) == name \in {"en-US", "ru-RU", "fr-FR"}

\* the locale directory names in sorted order
SortedLocales == <<"de", "en-US", "fr-FR", "ru-RU">>

\* the order in which glob and rglob list the files of the model
PathOrder ==
    <<  <<"manifest.json">>, <<"pack.json">>,
        <<"Server", "Languages", "de", "x.lang">>,
        <<"Server", "Languages", "de", "en_items.lang">>,
        <<"Server", "Languages", "de", "ru-RU">>,
        <<"Server", "Languages", "en-US", "x.lang">>,
        <<"Server", "Languages", "fr-FR", "x.lang">>,
        <<"Server", "Languages", "ru-RU", "x.lang">>,
        <<"Common", "Translations", "en_US.json">>,
        <<"Common", "Translations", "ru_RU.json">>,
        <<"Server", "Item", "item.json">>,
        <<"Common", "UI", "hud.ui">> >>

Listing(tr) == SelectSeq(PathOrder, LAMBDA p : p \in DOMAIN tr)

Last(sq) == sq[Len(sq)]

HasPart(p, name) == \E i \in 1..Len(p) : p[i] = name

LangRoot == <<"Server", "Languages">>

TransRoot == <<"Common", "Translations">>

IsUnder(p, dir) == Len(p) > Len(dir) /\ SubSeq(p, 1, Len(dir)) = dir

\* the *.lang files directly in the directory dir, in listing order
GlobLang(tr, dir) ==
    SelectSeq(Listing(tr),
              LAMBDA p : Len(p) = Len(dir) + 1 /\ IsUnder(p, dir) /\ Last(p) \in LangFileNames)

\* base.rglob("*.json") without the files below Languages or Translations
OtherJsonFiles(tr) ==
    SelectSeq(Listing(tr),
              LAMBDA p : Last(p) \in JsonFileNames /\ ~HasPart(p, "Languages")
                         /\ ~HasPart(p, "Translations"))

\* the first directory of sorted(lang_root.iterdir()) that is not ru-RU, as a
\* one-element sequence; empty when there is none
FirstLocaleDir(tr) ==
    LET dirs == SelectSeq(SortedLocales,
                          LAMBDA loc : loc /= "ru-RU"
                                       /\ \E p \in DOMAIN tr : IsUnder(p, Append(LangRoot, loc)))
    IN  IF dirs = <<>> THEN <<>> ELSE <<Append(LangRoot, dirs[1])>>

RuDir == <<"Server", "Languages", "ru-RU">>

\* ru_entries_by_file.get(name, {})
RuEntriesOf(tr, name) ==
    IF Append(RuDir, name) \in DOMAIN tr /\ name \in LangFileNames
    THEN parse_lang_content(tr[Append(RuDir, name)])
    ELSE <<>>

(***************************************************************************)
(* 2) the .lang scan                                                       *)
(***************************************************************************)
\* mutant: the entries are not pre-filled from the ru-RU file
LangFileRows_no_prefill(tr, p) ==
    LET entries == parse_lang_content(tr[p])
        keep == SelectSeq(entries, LAMBDA kv : Collectable(kv[2]))
    IN  [i \in 1..Len(keep) |-> Row("lang", p, keep[i][1], keep[i][2], None)]

LangFileRows(tr, p) ==
    LET entries == parse_lang_content(tr[p])
        ru == RuEntriesOf(tr, Last(p))
        keep == SelectSeq(entries, LAMBDA kv : Collectable(kv[2]))
    IN  [i \in 1..Len(keep) |->
            Row("lang", p, keep[i][1], keep[i][2], DictGet(ru, keep[i][1], None))]

\* the concatenation of Op(x) for x in sq
FlatMap(Op(_), sq) == Join([i \in 1..Len(sq) |-> Op(sq[i])])

LangRows(tr) ==
    LET d == FirstLocaleDir(tr) IN
    IF d = <<>> THEN <<>>
    ELSE FlatMap(LAMBDA p : LangFileRows(tr, p), GlobLang(tr, d[1]))

(***************************************************************************)
(* 2b) locale keys referenced from JSON files as "server.<key>"            *)
(***************************************************************************)
ServerPrefix == <<"s", "e", "r", "v", "e", "r", ".">>

RECURSIVE _extract_server_translation_keys(_)
_extract_server_translation_keys(obj) ==
    IF obj.t = "obj"
    THEN FlatMap(LAMBDA kv :
                    IF kv[2].t = "str" /\ IndexOf(kv[2].v, ServerPrefix) = 1
                    THEN <<SubSeq(kv[2].v, 8, Len(kv[2].v))>>
                    ELSE IF kv[2].t \in {"obj", "arr"}
                    THEN _extract_server_translation_keys(kv[2])
                    ELSE <<>>,
                 obj.v)
    ELSE IF obj.t = "arr"
    THEN FlatMap(LAMBDA x : _extract_server_translation_keys(x), obj.v)
    ELSE <<>>

\* s.replace(w, r)
RECURSIVE ReplaceAll(_, _, _)
ReplaceAll(s, w, r) ==
    LET i == IndexOf(s, w) IN
    IF i = 0 THEN s
    ELSE SubSeq(s, 1, i - 1) \o r \o ReplaceAll(SubSeq(s, i + Len(w), Len(s)), w, r)

UpperChar(c) ==
    IF c \in LowerLetters THEN AsciiOrder[Code(c) - (Code("a") - Code("A"))] ELSE c

\* str.title
Title(s) ==
    [i \in 1..Len(s) |->
        IF i > 1 /\ IsAsciiLetter(s[i - 1]) THEN LowerChar(s[i]) ELSE UpperChar(s[i])]

DotName == <<".", "n", "a", "m", "e">>

DotDescription == <<".", "d", "e", "s", "c", "r", "i", "p", "t", "i", "o", "n">>

DescriptionColon ==
    <<"D", "e", "s", "c", "r", "i", "p", "t", "i", "o", "n", ":", " ">>

_key_to_default_display_name(key) ==
    LET base == ReplaceAll(ReplaceAll(key, DotName, <<>>), DotDescription, <<>>)
        parts == Split(base, ".")
        name == strip([i \in 1..Len(Last(parts)) |->
                          IF Last(parts)[i] = "_" THEN " " ELSE Last(parts)[i]])
    IN  IF name = <<>> THEN key
        ELSE IF IndexOf(key, DotDescription) /= 0 THEN DescriptionColon \o Title(name)
        ELSE Title(name)

\* a or b for two str-or-None values
OrElse(a, b) == IF Truthy(a) THEN a ELSE b

\* en_entries_all: the entries of all .lang files of the first locale
RECURSIVE EnEntriesAll(_, _, _)
EnEntriesAll(tr, files, acc) ==
    IF files = <<>> THEN acc
    ELSE EnEntriesAll(tr, Tail(files), DictUpdate(acc, parse_lang_content(tr[Head(files)])))

\* the loop over ru_dir.glob("*.lang") that looks ru_val up
RECURSIVE RuValue(_, _, _, _)
RuValue(tr, files, key, ru_val) ==
    IF files = <<>> THEN ru_val
    ELSE LET e == parse_lang_content(tr[Head(files)]) IN
         RuValue(tr, Tail(files), key,
                 OrElse(DictGet(e, key, None),
                        OrElse(ru_val, DictGet(e, _key_case_variant(key), None))))

\* the keys of one JSON file: seen is lang_keys_seen restricted to default_lang_rel
RECURSIVE ServerKeyRows(_, _, _, _, _)
ServerKeyRows(tr, rel, en, keys, seen) ==
    IF keys = <<>> THEN [rows |-> <<>>, seen |-> seen]
    ELSE LET key == Head(keys) IN
         IF key \in seen THEN ServerKeyRows(tr, rel, en, Tail(keys), seen)
         ELSE LET src_val == OrElse(DictGet(en, key, None),
                                    OrElse(DictGet(en, _key_case_variant(key), None),
                                           _key_to_default_display_name(key)))
                  ru_val == RuValue(tr, GlobLang(tr, RuDir), key, None)
                  rest == ServerKeyRows(tr, rel, en, Tail(keys), seen \cup {key})
              IN  [rows |-> (IF ~_should_skip_source(src_val)
                             THEN <<Row("lang", rel, key, src_val, ru_val)>> ELSE <<>>)
                            \o rest.rows,
                   seen |-> rest.seen]

RECURSIVE ServerRowsOfFiles(_, _, _, _, _)
ServerRowsOfFiles(tr, rel, en, files, seen) ==
    IF files = <<>> THEN <<>>
    ELSE LET data == tr[Head(files)]
             r == IF data.t = "bad" THEN [rows |-> <<>>, seen |-> seen]
                  ELSE ServerKeyRows(tr, rel, en, _extract_server_translation_keys(data), seen)
         IN  r.rows \o ServerRowsOfFiles(tr, rel, en, Tail(files), r.seen)

ServerRows(tr, langRows) ==
    LET d == FirstLocaleDir(tr)
        files == IF d = <<>> THEN <<>> ELSE GlobLang(tr, d[1])
    IN  IF files = <<>> THEN <<>>
        ELSE ServerRowsOfFiles(tr, files[1], EnEntriesAll(tr, files, <<>>), OtherJsonFiles(tr),
                 {langRows[i].key : i \in {j \in 1..Len(langRows) : langRows[j].file_rel = files[1]}})

(***************************************************************************)
(* 3) Common/Translations/*.json                                           *)
(***************************************************************************)
RuJson == <<"Common", "Translations", "ru_RU.json">>

\* the rows of one nested category k: {k2: v2}
CommonInnerRows(rel, key, inner, ru_inner) ==
    LET keep == SelectSeq(inner, LAMBDA kv : kv[2].t = "str" /\ Collectable(kv[2].v)) IN
    [i \in 1..Len(keep) |->
        Row("common_json", rel, key \o <<".">> \o keep[i][1], keep[i][2].v,
            AsTranslated(ru_inner, keep[i][1]))]

CommonFileRows(tr, p) ==
    LET data == tr[p]
        ru_data == IF RuJson \in DOMAIN tr THEN tr[RuJson] ELSE JObj(<<>>)
    IN  IF data.t /= "obj" THEN <<>>
        ELSE IF ru_data.t /= "obj" THEN <<>>
        ELSE FlatMap(LAMBDA kv :
                        IF kv[2].t = "str" /\ Collectable(kv[2].v)
                        THEN <<Row("common_json", p, kv[1], kv[2].v,
                                   AsTranslated(ru_data.v, kv[1]))>>
                        ELSE IF kv[2].t = "obj"
                        THEN LET ru_inner == DictGet(ru_data.v, kv[1], JObj(<<>>)) IN
                             IF ru_inner.t = "obj"
                             THEN CommonInnerRows(p, kv[1], kv[2].v, ru_inner.v)
                             ELSE <<>>
                        ELSE <<>>,
                     data.v)

CommonRows(tr) ==
    FlatMap(LAMBDA p : CommonFileRows(tr, p),
            SelectSeq(Listing(tr),
                      LAMBDA p : Len(p) = 3 /\ IsUnder(p, TransRoot)
                                 /\ Last(p) \in JsonFileNames /\ ~StartsWithRu(Last(p))))

(***************************************************************************)
(* 4) .ui files: _UI_TEXT_PATTERN, extract_ui_strings,                    *)
(* apply_ui_translations                                                   *)
(***************************************************************************)
\* c[i..] starts with w
HasAt(c, i, w) == i + Len(w) - 1 <= Len(c) /\ SubSeq(c, i, i + Len(w) - 1) = w

\* the first position >= i of c that holds no whitespace (Len(c) + 1 if none)
RECURSIVE SkipSpaces(_, _)
SkipSpaces(c, i) == IF i <= Len(c) /\ IsSpace(c[i]) THEN SkipSpaces(c, i + 1) ELSE i

UiText == <<"T", "e", "x", "t", ":">>

UiAtText == <<"@", "T", "e", "x", "t">>

\* the quoted value that opens at position q: the match [from, q] ("), the
\* value, and the closing quote; len = 0 when there is no match
UiQuoted(c, from, q) ==
    LET close == {j \in (q + 1)..Len(c) : c[j] = "\""} IN
    IF q <= Len(c) /\ c[q] = "\"" /\ close /= {}
    THEN [len |-> Min(close) - from + 1, val |-> SubSeq(c, q + 1, Min(close) - 1),
          prefix |-> SubSeq(c, from, q)]
    ELSE [len |-> 0, val |-> <<>>, prefix |-> <<>>]

\* the match of _UI_TEXT_PATTERN that starts at position i of c
UiMatchAt(c, i) ==
    IF HasAt(c, i, UiText) THEN UiQuoted(c, i, SkipSpaces(c, i + 5))
    ELSE IF HasAt(c, i, UiAtText)
    THEN LET e == SkipSpaces(c, i + 5) IN
         IF e <= Len(c) /\ c[e] = "=" THEN UiQuoted(c, i, SkipSpaces(c, e + 1))
         ELSE [len |-> 0, val |-> <<>>, prefix |-> <<>>]
    ELSE [len |-> 0, val |-> <<>>, prefix |-> <<>>]

\* [(m.start(), value), ...]
RECURSIVE extract_ui_strings_from(_, _)
extract_ui_strings_from(c, i) ==
    LET starts == {j \in i..Len(c) : UiMatchAt(c, j).len > 0}
        m == UiMatchAt(c, Min(starts))
    IN  IF starts = {} THEN <<>>
        ELSE <<<<Min(starts) - 1, m.val>>>>
                 \o extract_ui_strings_from(c, Min(starts) + m.len)

extract_ui_strings(c) == extract_ui_strings_from(c, 1)

\* repl(m): the first pair whose source is the value and whose translation is
\* not empty replaces it
UiReplacement(m, replacements) ==
    LET hit == {n \in 1..Len(replacements) :
                   replacements[n][1] = m.val /\ replacements[n][2] /= <<>>}
    IN  IF hit = {} THEN m.prefix \o m.val \o <<"\"">>
        ELSE m.prefix \o replacements[Min(hit)][2] \o <<"\"">>

RECURSIVE UiSub(_, _, _)
UiSub(c, i, replacements) ==
    LET starts == {j \in i..Len(c) : UiMatchAt(c, j).len > 0}
        m == UiMatchAt(c, Min(starts))
    IN  IF starts = {} THEN SubSeq(c, i, Len(c))
        ELSE SubSeq(c, i, Min(starts) - 1) \o UiReplacement(m, replacements)
                 \o UiSub(c, Min(starts) + m.len, replacements)

apply_ui_translations(c, replacements) ==
    IF replacements = <<>> THEN c ELSE UiSub(c, 1, replacements)

RECURSIVE UiFileRows(_, _, _)
UiFileRows(rel, found, seen) ==
    IF found = <<>> THEN <<>>
    ELSE LET pos == found[1][1]
             src == found[1][2]
         IN  IF strip(src) /= <<>> /\ Collectable(src) /\ src \notin seen
             THEN <<Row("ui", rel, IntToStr(pos), src, None)>>
                      \o UiFileRows(rel, Tail(found), seen \cup {src})
             ELSE UiFileRows(rel, Tail(found), seen)

UiRows(tr) ==
    FlatMap(LAMBDA p : UiFileRows(p, extract_ui_strings(tr[p]), {}),
            SelectSeq(Listing(tr), LAMBDA p : Last(p) \in UiFileNames))

(***************************************************************************)
(* Generic JSON: _json_find_text_paths, _path_to_key_str                   *)
(***************************************************************************)
JSON_TEXT_KEYS ==
    { <<"n", "a", "m", "e">>,
      <<"d", "e", "s", "c", "r", "i", "p", "t", "i", "o", "n">>,
      <<"t", "i", "t", "l", "e">>,
      <<"t", "e", "x", "t">>,
      <<"d", "i", "s", "p", "l", "a", "y", "N", "a", "m", "e">>,
      <<"m", "e", "s", "s", "a", "g", "e">>,
      <<"l", "o", "r", "e">>,
      <<"d", "i", "s", "p", "l", "a", "y", "_", "n", "a", "m", "e">>,
      <<"d", "e", "s", "c">>,
      <<"l", "a", "b", "e", "l">>,
      <<"h", "i", "n", "t">>,
      <<"p", "l", "a", "c", "e", "h", "o", "l", "d", "e", "r">> }

\* a path element: a dict key or a list index
PKey(key) == [t |-> "k", s |-> key, i |-> 0]

PIdx(i) == [t |-> "i", s |-> <<>>, i |-> i]

\* the list of (path, value) pairs, as records
RECURSIVE _json_find_text_paths(_, _)
RECURSIVE FindInPairs(_, _, _)
RECURSIVE FindInItems(_, _, _)
_json_find_text_paths(obj, pth) ==
    IF obj.t = "obj" THEN FindInPairs(obj.v, pth, 1)
    ELSE IF obj.t = "arr" THEN FindInItems(obj.v, pth, 1)
    ELSE <<>>

FindInPairs(pairs, pth, n) ==
    IF n > Len(pairs) THEN <<>>
    ELSE LET key == pairs[n][1]
             val == pairs[n][2]
         IN  (IF Lower(key) \in JSON_TEXT_KEYS /\ val.t = "str"
              THEN <<[path |-> Append(pth, PKey(key)), val |-> val.v]>>
              ELSE _json_find_text_paths(val, Append(pth, PKey(key))))
             \o FindInPairs(pairs, pth, n + 1)

FindInItems(items, pth, n) ==
    IF n > Len(items) THEN <<>>
    ELSE _json_find_text_paths(items[n], Append(pth, PIdx(n - 1)))
             \o FindInItems(items, pth, n + 1)

\* "".join(parts) of _path_to_key_str, before lstrip(".")
RECURSIVE PathParts(_, _)
PathParts(pth, n) ==
    IF n > Len(pth) THEN <<>>
    ELSE (IF pth[n].t = "i" THEN <<"[">> \o IntToStr(pth[n].i) \o <<"]">>
          ELSE IF n = 1 THEN pth[n].s
          ELSE <<".">> \o pth[n].s)
         \o PathParts(pth, n + 1)

RECURSIVE LstripChar(_, _)
LstripChar(s, c) == IF s /= <<>> /\ Head(s) = c THEN LstripChar(Tail(s), c) ELSE s

_path_to_key_str(pth) == LstripChar(PathParts(pth, 1), ".")

\* 5) the other JSON files
JsonFileRows(tr, p) ==
    LET found == IF tr[p].t = "bad" THEN <<>> ELSE _json_find_text_paths(tr[p], <<>>)
        keep == SelectSeq(found, LAMBDA f : strip(f.val) /= <<>> /\ Collectable(f.val))
    IN  [i \in 1..Len(keep) |->
            Row("json", p, _path_to_key_str(keep[i].path), keep[i].val, None)]

JsonRows(tr) == FlatMap(LAMBDA p : JsonFileRows(tr, p), OtherJsonFiles(tr))

(***************************************************************************)
(* collect_all_strings                                                     *)
(***************************************************************************)
\* mutant: the UI entries are listed before the structured translation entries
collect_all_strings_ui_first(tr) ==
    LET langRows == LangRows(tr) IN
    ManifestRows(tr) \o langRows \o ServerRows(tr, langRows) \o UiRows(tr)
        \o CommonRows(tr) \o JsonRows(tr)

collect_all_strings(tr) ==
    LET langRows == LangRows(tr) IN
    ManifestRows(tr) \o langRows \o ServerRows(tr, langRows) \o CommonRows(tr)
        \o UiRows(tr) \o JsonRows(tr)

(***************************************************************************)
(* save_all_translations.  A stage of the writer yields the tree it leaves *)
(* and whether it ran to its end (ok) or raised.                           *)
(***************************************************************************)
\* (r.get("translated") or "").strip(), for a translated that is None or a str
RowTr(r) == IF r.translated = None THEN <<>> ELSE strip(r.translated)

\* mutant: rows with an empty translation are written as well
TranslatedRows_with_empty(rows, type) == SelectSeq(rows, LAMBDA r : r.type = type)

\* the rows of one type that the grouping loop does not skip
TranslatedRows(rows, type) ==
    SelectSeq(rows, LAMBDA r : r.type = type /\ RowTr(r) /= <<>>)

\* by_file.setdefault(e.rel, {})[e.key] = e.val, over the entries es
RECURSIVE GroupDict(_, _)
GroupDict(acc, es) ==
    IF es = <<>> THEN acc
    ELSE LET e == Head(es) IN
         GroupDict(DictSet(acc, e.rel, DictSet(DictGet(acc, e.rel, <<>>), e.key, e.val)),
                   Tail(es))

\* by_file.setdefault(e.rel, []).append((e.key, e.val)), over the entries es
RECURSIVE GroupList(_, _)
GroupList(acc, es) ==
    IF es = <<>> THEN acc
    ELSE LET e == Head(es) IN
         GroupList(DictSet(acc, e.rel, Append(DictGet(acc, e.rel, <<>>), <<e.key, e.val>>)),
                   Tail(es))

lang_file_rel_to_ru(rel) ==
    LET hit == {i \in 1..Len(rel) :
                   rel[i] /= "ru-RU" /\ (StartsWithEn(rel[i]) \/ LocaleShaped(rel[i]))}
    IN  IF hit = {} THEN rel
        ELSE [i \in 1..Len(rel) |-> IF i = Min(hit) THEN "ru-RU" ELSE rel[i]]

\* ru_rel.replace("ru-RU", "en-US")
RuToEn(rel) == [i \in 1..Len(rel) |-> IF rel[i] = "ru-RU" THEN "en-US" ELSE rel[i]]

Write(tr, p, content) == [q \in DOMAIN tr \cup {p} |-> IF q = p THEN content ELSE tr[q]]

Done(tr) == [tree |-> tr, ok |-> TRUE]

Raised(tr) == [tree |-> tr, ok |-> FALSE]

\* int(s) for a string of digits
RECURSIVE StrToInt(_)
StrToInt(s) ==
    IF s = <<>> THEN 0
    ELSE 10 * StrToInt(SubSeq(s, 1, Len(s) - 1)) + (Code(s[Len(s)]) - Code("0"))

IsDigitStr(s) == s /= <<>> /\ \A i \in 1..Len(s) : s[i] \in Digits

AuthorsOpen == K_Authors \o <<"[">>

CloseDotName == <<"]", ".">> \o K_Name

\* the body of "for k, v in kv.items()" of the manifest writer; ok is FALSE
\* when the statement raises
ManifestSet(data, key, v) ==
    IF key = K_Name \/ key = K_Description
    THEN [data |-> DictSet(data, key, JStr(v)), ok |-> TRUE]
    ELSE IF IndexOf(key, AuthorsOpen) = 1 /\ IndexOf(key, CloseDotName) /= 0
    THEN LET digits == Split(Split(key, "[")[2], "]")[1]
             au == DictGet(data, K_Authors, JNum)
         IN  IF ~IsDigitStr(digits) THEN [data |-> data, ok |-> FALSE]
             ELSE IF ~DictHas(data, K_Authors) THEN [data |-> data, ok |-> TRUE]
             ELSE IF au.t \notin {"arr", "obj", "str"} THEN [data |-> data, ok |-> FALSE]
             ELSE IF au.t = "arr" /\ StrToInt(digits) < Len(au.v)
                     /\ au.v[StrToInt(digits) + 1].t = "obj"
             THEN [data |-> DictSet(data, K_Authors,
                                    JArr([n \in 1..Len(au.v) |->
                                            IF n = StrToInt(digits) + 1
                                            THEN JObj(DictSet(au.v[n].v, K_Name, JStr(v)))
                                            ELSE au.v[n]])),
                   ok |-> TRUE]
             ELSE IF au.t \in {"arr", "str"} \/ StrToInt(digits) >= Len(au.v)
             THEN [data |-> data, ok |-> TRUE]
             ELSE [data |-> data, ok |-> FALSE]
    ELSE [data |-> data, ok |-> TRUE]

RECURSIVE ManifestSetAll(_, _)
ManifestSetAll(data, kv) ==
    IF kv = <<>> THEN [data |-> data, ok |-> TRUE]
    ELSE LET r == ManifestSet(data, kv[1][1], kv[1][2]) IN
         IF r.ok THEN ManifestSetAll(r.data, Tail(kv)) ELSE r

\* for rel, kv in manifest_updates.items()
RECURSIVE SaveManifest(_, _)
SaveManifest(tr, updates) ==
    IF updates = <<>> THEN Done(tr)
    ELSE LET rel == updates[1][1] IN
         IF rel \notin DOMAIN tr THEN SaveManifest(tr, Tail(updates))
         ELSE IF tr[rel].t /= "obj" THEN Raised(tr)
         ELSE LET r == ManifestSetAll(tr[rel].v, updates[1][2]) IN
              IF r.ok THEN SaveManifest(Write(tr, rel, JObj(r.data)), Tail(updates))
              ELSE Raised(tr)

\* "if k not in existing_en and src_text: existing_en[k] = src_text"
RECURSIVE AddMissing(_, _)
AddMissing(d, sources) ==
    IF sources = <<>> THEN d
    ELSE AddMissing(IF ~DictHas(d, sources[1][1]) /\ sources[1][2] /= <<>>
                    THEN DictSet(d, sources[1][1], sources[1][2]) ELSE d,
                    Tail(sources))

\* mutant: the target file is written from the translated entries alone
SaveLangFile_overwrite(tr, ru_rel, entries, sources) ==
    Write(tr, ru_rel, lang_to_content(AddCaseAliases(entries, entries)))

\* the body of "for ru_rel, entries in lang_by_file.items()"
SaveLangFile(tr, ru_rel, entries, sources) ==
    LET existing_ru == IF ru_rel \in DOMAIN tr THEN parse_lang_content(tr[ru_rel]) ELSE <<>>
        merged == DictUpdate(existing_ru, entries)
        tr1 == Write(tr, ru_rel, lang_to_content(AddCaseAliases(merged, merged)))
        src_rel == RuToEn(ru_rel)
    IN  IF src_rel \in DOMAIN tr1 /\ src_rel /= ru_rel
        THEN LET filled == AddMissing(parse_lang_content(tr1[src_rel]), sources) IN
             Write(tr1, src_rel, lang_to_content(AddCaseAliases(filled, filled)))
        ELSE tr1

RECURSIVE SaveLang(_, _, _)
SaveLang(tr, by_file, lang_sources) ==
    IF by_file = <<>> THEN tr
    ELSE SaveLang(SaveLangFile(tr, by_file[1][1], by_file[1][2],
                               DictGet(lang_sources, by_file[1][1], <<>>)),
                  Tail(by_file), lang_sources)

\* for rel, pairs in ui_by_file.items()
RECURSIVE SaveUi(_, _)
SaveUi(tr, by_file) ==
    IF by_file = <<>> THEN tr
    ELSE LET rel == by_file[1][1] IN
         SaveUi(IF rel \in DOMAIN tr
                THEN Write(tr, rel, apply_ui_translations(tr[rel], by_file[1][2]))
                ELSE tr,
                Tail(by_file))

\* the body of "for key_path, val in kv.items()" of the ru_RU.json writer
CommonSet(existing, key_path, val) ==
    LET dot == IndexOf(key_path, <<".">>)
        cat == SubSeq(key_path, 1, dot - 1)
        subkey == SubSeq(key_path, dot + 1, Len(key_path))
        inner == IF DictHas(existing, cat) /\ DictGet(existing, cat, JNum).t = "obj"
                 THEN DictGet(existing, cat, JNum).v ELSE <<>>
    IN  IF dot = 0 THEN DictSet(existing, key_path, JStr(val))
        ELSE DictSet(existing, cat, JObj(DictSet(inner, subkey, JStr(val))))

RECURSIVE CommonSetAll(_, _)
CommonSetAll(existing, kv) ==
    IF kv = <<>> THEN existing
    ELSE CommonSetAll(CommonSet(existing, kv[1][1], kv[1][2]), Tail(kv))

\* for rel, kv in common_json_by_file.items()
RECURSIVE SaveCommon(_, _)
SaveCommon(tr, by_file) ==
    IF by_file = <<>> THEN Done(tr)
    ELSE LET rel == by_file[1][1]
             ru_path == Append(SubSeq(rel, 1, Len(rel) - 1), "ru_RU.json")
             existing == IF ru_path \in DOMAIN tr THEN tr[ru_path] ELSE JObj(<<>>)
         IN  IF existing.t /= "obj" THEN Raised(tr)
             ELSE SaveCommon(Write(tr, ru_path, JObj(CommonSetAll(existing.v, by_file[1][2]))),
                             Tail(by_file))

_key_str_to_path(s) ==
    \* re.split(r"\.|\[|\]", s) without its empty parts
    LET parts == SelectSeq(SplitAny(s, {".", "[", "]"}), LAMBDA x : x /= <<>>) IN
    [i \in 1..Len(parts) |->
        IF IsDigitStr(parts[i]) THEN PIdx(StrToInt(parts[i])) ELSE PKey(parts[i])]

\* obj after _json_set_by_path(obj, pth, value); ok is FALSE when it raises.
\* A dict that is given an int key is written by json.dumps under str(key).
RECURSIVE _json_set_by_path(_, _, _)
_json_set_by_path(obj, pth, value) ==
    IF pth = <<>> THEN [v |-> obj, ok |-> FALSE]
    ELSE LET h == pth[1]
             sub == IF obj.t = "obj" /\ h.t = "k" /\ DictHas(obj.v, h.s)
                    THEN _json_set_by_path(DictGet(obj.v, h.s, JNum), Tail(pth), value)
                    ELSE IF obj.t = "arr" /\ h.t = "i" /\ h.i < Len(obj.v)
                    THEN _json_set_by_path(obj.v[h.i + 1], Tail(pth), value)
                    ELSE [v |-> obj, ok |-> FALSE]
         IN  IF Len(pth) = 1
             THEN IF obj.t = "obj"
                  THEN [v |-> JObj(DictSet(obj.v, IF h.t = "k" THEN h.s ELSE IntToStr(h.i),
                                           JStr(value))),
                        ok |-> TRUE]
                  ELSE IF obj.t = "arr" /\ h.t = "i" /\ h.i < Len(obj.v)
                  THEN [v |-> JArr([n \in 1..Len(obj.v) |->
                                      IF n = h.i + 1 THEN JStr(value) ELSE obj.v[n]]),
                        ok |-> TRUE]
                  ELSE [v |-> obj, ok |-> FALSE]
             ELSE IF ~sub.ok THEN [v |-> obj, ok |-> FALSE]
             ELSE IF obj.t = "obj" THEN [v |-> JObj(DictSet(obj.v, h.s, sub.v)), ok |-> TRUE]
             ELSE [v |-> JArr([n \in 1..Len(obj.v) |->
                                 IF n = h.i + 1 THEN sub.v ELSE obj.v[n]]),
                   ok |-> TRUE]

RECURSIVE JsonSetAll(_, _)
JsonSetAll(data, key_vals) ==
    IF key_vals = <<>> THEN [v |-> data, ok |-> TRUE]
    ELSE LET r == _json_set_by_path(data, _key_str_to_path(key_vals[1][1]), key_vals[1][2]) IN
         IF r.ok THEN JsonSetAll(r.v, Tail(key_vals)) ELSE r

\* for rel, key_vals in json_by_file.items()
RECURSIVE SaveJson(_, _)
SaveJson(tr, by_file) ==
    IF by_file = <<>> THEN Done(tr)
    ELSE LET rel == by_file[1][1] IN
         IF rel \notin DOMAIN tr THEN SaveJson(tr, Tail(by_file))
         ELSE IF tr[rel].t = "bad" THEN Raised(tr)
         ELSE LET r == JsonSetAll(tr[rel], by_file[1][2]) IN
              IF r.ok THEN SaveJson(Write(tr, rel, r.v), Tail(by_file)) ELSE Raised(tr)

\* the entries the grouping loop files under rel
Entries(rs, Rel(_), Key(_), Val(_)) ==
    [i \in 1..Len(rs) |-> [rel |-> Rel(rs[i]), key |-> Key(rs[i]), val |-> Val(rs[i])]]

save_all_translations(tr, rows) ==
    LET manifest_updates ==
            GroupDict(<<>>, Entries(TranslatedRows(rows, "manifest"),
                                    LAMBDA r : r.file_rel, LAMBDA r : r.key, RowTr))
        lang_sources ==
            GroupDict(<<>>, Entries(SelectSeq(rows, LAMBDA r : r.type = "lang"),
                                    LAMBDA r : lang_file_rel_to_ru(r.file_rel),
                                    LAMBDA r : r.key, LAMBDA r : strip(r.source)))
        lang_by_file ==
            GroupDict(<<>>, Entries(TranslatedRows(rows, "lang"),
                                    LAMBDA r : lang_file_rel_to_ru(r.file_rel),
                                    LAMBDA r : r.key, RowTr))
        ui_by_file ==
            GroupList(<<>>, Entries(TranslatedRows(rows, "ui"),
                                    LAMBDA r : r.file_rel, LAMBDA r : r.source, RowTr))
        common_json_by_file ==
            GroupDict(<<>>, Entries(TranslatedRows(rows, "common_json"),
                                    LAMBDA r : r.file_rel, LAMBDA r : r.key, RowTr))
        json_by_file ==
            GroupList(<<>>, Entries(TranslatedRows(rows, "json"),
                                    LAMBDA r : r.file_rel, LAMBDA r : r.key, RowTr))
        m == SaveManifest(tr, manifest_updates)
        c == SaveCommon(SaveUi(SaveLang(m.tree, lang_by_file, lang_sources), ui_by_file),
                        common_json_by_file)
    IN  IF \E i \in 1..Len(rows) : rows[i].translated = NonStr THEN Raised(tr)
        ELSE IF ~m.ok THEN m
        ELSE IF ~c.ok THEN c
        ELSE SaveJson(c.tree, json_by_file)

(***************************************************************************)
(* The editing session of the application: a mod is extracted, its strings *)
(* are collected (App._load_strings), translations are entered            *)
(* (the entry widgets, App._translate_all) and written back               *)
(* (App._save_and_pack).  Latin letters stand for the Cyrillic ones of    *)
(* the translations; the code treats both alike.                          *)
(***************************************************************************)
Hello ==
    <<"H", "e", "l", "l", "o">>

Privet ==
    <<"P", "r", "i", "v", "e", "t">>

Poka ==
    <<"P", "o", "k", "a">>

Bob ==
    <<"B", "o", "b">>

K_greeting ==
    <<"g", "r", "e", "e", "t", "i", "n", "g">>

K_farewell ==
    <<"f", "a", "r", "e", "w", "e", "l", "l">>

K_title ==
    <<"t", "i", "t", "l", "e">>

K_items ==
    <<"i", "t", "e", "m", "s">>

K_sword ==
    <<"s", "w", "o", "r", "d">>

K_list ==
    <<"l", "i", "s", "t">>

K_ref ==
    <<"r", "e", "f">>

ServerFarewell ==
    <<"s", "e", "r", "v", "e", "r", ".", "f", "a", "r", "e", "w", "e", "l", "l">>

\* en-US/x.lang of the locale scenario
LangGreeting ==
    <<"g", "r", "e", "e", "t", "i", "n", "g", "=", "H", "e", "l", "l", "o">>

\* ru-RU/x.lang of the locale scenario
LangFarewell ==
    <<"f", "a", "r", "e", "w", "e", "l", "l", "=", "P", "o", "k", "a">>

LangEnBench ==
    <<"g", "r", "e", "e", "t", "i", "n", "g", "=", "H", "e", "l", "l", "o", "\n", "b",
      "e", "n", "c", "h", "c", "a", "t", "e", "g", "o", "r", "i", "e", "s", ".", "a",
      "=", "H", "e", "l", "l", "o">>

LangRuBench ==
    <<"#", " ", "r", "u", "\n", "f", "a", "r", "e", "w", "e", "l", "l", " ", "=", " ",
      "P", "o", "k", "a", "\n", "b", "e", "n", "c", "h", "C", "a", "t", "e", "g", "o",
      "r", "i", "e", "s", ".", "a", "=", "P", "o", "k", "a", "\n", "g", "r", "e", "e",
      "t", "i", "n", "g", "=", "P", "o", "k", "a", "\n">>

UiHud ==
    <<"L", "a", "b", "e", "l", " ", "{", " ", "T", "e", "x", "t", ":", " ", "\"", "H",
      "e", "l", "l", "o", "\"", ";", " ", "}", "\n", "@", "T", "e", "x", "t", " ", "=",
      " ", "\"", "P", "r", "i", "v", "e", "t", "\"">>

\* the manifest scenario: manifest.json is the only file
ManifestOnlyTree ==
    <<"manifest.json">> :>
        JObj(<< <<K_Name, JStr(Test_Sword)>>, <<K_Description, JStr(A_weapon_sword)>> >>)

\* the locale scenario
LocaleTree ==
    <<"Server", "Languages", "en-US", "x.lang">> :> LangGreeting
        @@ <<"Server", "Languages", "ru-RU", "x.lang">> :> LangFarewell

\* a locale whose ru-RU file holds comments, a key in the other case and a
\* key that only a JSON file refers to
BenchTree ==
    <<"Server", "Languages", "en-US", "x.lang">> :> LangEnBench
        @@ <<"Server", "Languages", "ru-RU", "x.lang">> :> LangRuBench
        @@ <<"Server", "Item", "item.json">> :> JObj(<< <<K_ref, JStr(ServerFarewell)>> >>)

\* a first locale directory that lang_file_rel_to_ru does not recognise
GermanTree ==
    <<"Server", "Languages", "de", "x.lang">> :> LangGreeting
        @@ <<"Server", "Languages", "ru-RU", "x.lang">> :> LangFarewell

UiTree == <<"Common", "UI", "hud.ui">> :> UiHud

CommonTree ==
    <<"Common", "Translations", "en_US.json">> :>
        JObj(<< <<K_title, JStr(Hello)>>,
                <<K_items, JObj(<< <<K_sword, JStr(Hello)>> >>)>> >>)
        @@ <<"Common", "Translations", "ru_RU.json">> :>
            JObj(<< <<K_title, JStr(Poka)>>, <<K_items, JNum>> >>)

JsonTree ==
    <<"pack.json">> :>
        JObj(<< <<K_Authors, JArr(<<JObj(<< <<K_Name, JStr(Bob)>> >>)>>)>> >>)
        @@ <<"Server", "Item", "item.json">> :>
            JObj(<< <<K_list, JArr(<<JObj(<< <<K_Description, JStr(Hello)>> >>)>>)>> >>)

\* a locale value that is itself a dotted key, and a JSON file that refers to it
KeyValueTree ==
    <<"Server", "Languages", "en-US", "x.lang">> :> <<"s", "w", "o", "r", "d", "=", "a", ".", "b">>
        @@ <<"Server", "Item", "item.json">> :>
            JObj(<< <<K_ref, JStr(<<"s", "e", "r", "v", "e", "r", ".", "s", "w", "o", "r", "d">>)>> >>)

\* a JSON document with a dot inside an object key
DottedKeyTree ==
    <<"Server", "Item", "item.json">> :>
        JObj(<< <<<<"a", ".", "b">>, JObj(<< <<<<"n", "a", "m", "e">>, JStr(Hello)>> >>)>>,
                <<<<"a">>, JObj(<< <<<<"b">>, JObj(<< <<<<"n", "a", "m", "e">>, JStr(Poka)>> >>)>> >>)>> >>)

\* a structured translation file whose key holds a dot
DottedCommonTree ==
    <<"Common", "Translations", "en_US.json">> :> JObj(<< <<<<"i", "t", "e", "m", "s", ".", "s", "w", "o", "r", "d">>, JStr(Hello)>> >>)
        @@ <<"Common", "Translations", "ru_RU.json">> :> JObj(<< <<K_items, JStr(Poka)>> >>)

Trees ==
    {ManifestOnlyTree, LocaleTree, BenchTree, GermanTree, UiTree, CommonTree, JsonTree,
     KeyValueTree, DottedKeyTree, DottedCommonTree}

\* what is typed into an entry or returned by the translator
TranslatedTexts == {<<>>, <<" ">>, Privet, Poka, <<" ">> \o Privet}

\* Bound on the consecutive saves of one catalogue
MaxSaves == 2

Init ==
    /\ tree \in Trees
    /\ translate_rows = <<>>
    /\ before = tree
    /\ saves = 0
    /\ save_ok = TRUE
    /\ pc = "extracted"
    /\ text = <<>>
    /\ TranslateIdle
    /\ WindowIdle
    /\ PackIdle
    /\ decision = FALSE

\* App._load_strings: rows = collect_all_strings(extracted)
Collect ==
    /\ pc = "extracted"
    /\ translate_rows' = collect_all_strings(tree)
    /\ pc' = "loaded"
    /\ UNCHANGED <<tree, before, saves, save_ok>>
    /\ UNCHANGED call_vars
    /\ UNCHANGED window_vars
    /\ UNCHANGED pack_vars

\* a translation is put into the entry of row i
SetTranslated ==
    /\ pc = "loaded"
    /\ \E i \in 1..Len(translate_rows), v \in TranslatedTexts :
          /\ translate_rows[i].translated /= v
          /\ translate_rows' = [translate_rows EXCEPT ![i].translated = v]
    /\ before' = tree
    /\ saves' = 0
    /\ save_ok' = TRUE
    /\ UNCHANGED <<tree, pc>>
    /\ UNCHANGED call_vars
    /\ UNCHANGED window_vars
    /\ UNCHANGED pack_vars

\* App._save_and_pack: save_all_translations(extracted, rows)
Save ==
    /\ pc = "loaded"
    /\ saves < MaxSaves
    /\ LET r == save_all_translations(tree, translate_rows) IN
          /\ tree' = r.tree
          /\ save_ok' = r.ok
    /\ before' = tree
    /\ saves' = saves + 1
    /\ UNCHANGED <<translate_rows, pc>>
    /\ UNCHANGED call_vars
    /\ UNCHANGED window_vars
    /\ UNCHANGED pack_vars

Next ==
    \/ Collect
    \/ SetTranslated
    \/ Save

Spec == Init /\ [][Next]_vars

(***************************************************************************)
(* The collector alone, over the mods that are built by choosing for each  *)
(* of eight files whether it exists and what it holds.  A choice is the    *)
(* empty tuple (no such file) or the one-element tuple of the content.     *)
(***************************************************************************)
File(p, choice) == IF choice = <<>> THEN <<>> ELSE p :> choice[1]

ManifestChoices == {<<>>, <<JObj(<< <<K_Name, JStr(Bob)>> >>)>>, <<Malformed>>}

EnLangChoices == {<<>>, <<LangGreeting>>}

FrLangChoices == {<<>>, <<<<"g", "r", "e", "e", "t", "i", "n", "g", "=", "H", "e", "l", "l", "o", "\n", "f", "a", "r", "e", "w", "e", "l", "l", "=", "H", "e", "l", "l", "o">>>>}

RuLangChoices == {<<>>, <<<<"g", "r", "e", "e", "t", "i", "n", "g", "=", "P", "r", "i", "v", "e", "t", "\n", "f", "a", "r", "e", "w", "e", "l", "l", "=", "P", "o", "k", "a">>>>}

EnJsonChoices == {<<>>, <<JObj(<< <<K_title, JStr(Hello)>> >>)>>}

RuJsonChoices == {<<>>, <<JObj(<< <<K_title, JStr(Poka)>> >>)>>, <<Malformed>>}

UiChoices == {<<>>, <<<<"T", "e", "x", "t", ":", " ", "\"", "H", "e", "l", "l", "o", "\"">>>>}

ItemChoices ==
    {<<>>, <<Malformed>>,
     <<JObj(<< <<<<"D", "i", "s", "p", "l", "a", "y", "N", "a", "m", "e">>, JStr(Hello)>> >>)>>,
     <<JObj(<< <<K_list, JArr(<<JObj(<< <<<<"T", "I", "T", "L", "E">>, JStr(Hello)>>,
                                          <<K_ref, JStr(ServerFarewell)>> >>)>>)>> >>)>>}

CollectTrees ==
    {File(<<"manifest.json">>, mf)
        @@ File(<<"Server", "Languages", "en-US", "x.lang">>, en)
        @@ File(<<"Server", "Languages", "fr-FR", "x.lang">>, fr)
        @@ File(<<"Server", "Languages", "ru-RU", "x.lang">>, ru)
        @@ File(<<"Common", "Translations", "en_US.json">>, ej)
        @@ File(<<"Common", "Translations", "ru_RU.json">>, rj)
        @@ File(<<"Common", "UI", "hud.ui">>, ui)
        @@ File(<<"Server", "Item", "item.json">>, it) :
            mf \in ManifestChoices, en \in EnLangChoices, fr \in FrLangChoices,
            ru \in RuLangChoices, ej \in EnJsonChoices, rj \in RuJsonChoices,
            ui \in UiChoices, it \in ItemChoices}

InitCollect ==
    /\ tree \in CollectTrees
    /\ translate_rows = <<>>
    /\ before = tree
    /\ saves = 0
    /\ save_ok = TRUE
    /\ pc = "extracted"
    /\ text = <<>>
    /\ TranslateIdle
    /\ WindowIdle
    /\ PackIdle
    /\ decision = FALSE

NextCollect == Collect

SpecCollect == InitCollect /\ [][NextCollect]_vars

(***************************************************************************)
(* Automatic translation (app.py): _basic_translate asks up to four        *)
(* translation providers in turn; what each of them does (return a text or *)
(* raise) is an input.  _auto_translate adds the translation memory and    *)
(* the cache of segments.  A call yields the values returned together with *)
(* the memory and the cache it leaves.                                     *)
(***************************************************************************)
ProviderReturns(out) == [kind |-> "ret", v |-> out]

ProviderRaises(e) == [kind |-> "raise", v |-> e]

\* the providers from the n-th on, err being the error kept so far
RECURSIVE BasicFrom(_, _, _)
BasicFrom(run, n, err) ==
    IF n > Len(run) THEN [tr |-> None, err |-> err]
    ELSE IF run[n].kind = "ret"
    THEN IF Truthy(run[n].v) /\ strip(run[n].v) /= <<>>
         THEN [tr |-> strip(run[n].v), err |-> None]
         ELSE BasicFrom(run, n + 1, err)
    ELSE BasicFrom(run, n + 1, IF Truthy(err) THEN err ELSE run[n].v)

\* text = (text or "").strip()
TextOrEmpty(t) == IF t = None THEN <<>> ELSE strip(t)

_basic_translate(t, run) ==
    IF TextOrEmpty(t) = <<>> THEN [tr |-> None, err |-> None] ELSE BasicFrom(run, 1, None)

\* what a call returns together with the memory and the cache it leaves
Outcome(tr, err, mem, cache) ==
    [tr |-> tr, err |-> err, memory |-> mem, cache |-> cache, asked |-> <<>>]

\* the call _basic_translate(x) that returned b, made for a segment or for a
\* whole text
BackendCall(x, b, segment) == [text |-> x, tr |-> b.tr, err |-> b.err, segment |-> segment]

\* translate_segment keeping a translation in the memory only
StoreSegment_memory_only(b, seg_clean, mem, cache) ==
    [Outcome(b.tr, b.err,
             IF Truthy(b.tr) THEN DictSet(mem, seg_clean, b.tr) ELSE mem,
             cache)
         EXCEPT !.asked = <<BackendCall(seg_clean, b, TRUE)>>]

\* translate_segment after _basic_translate returned b: a translation is kept
\* in the cache of segments and in the memory
StoreSegment(b, seg_clean, mem, cache) ==
    [Outcome(b.tr, b.err,
             IF Truthy(b.tr) THEN DictSet(mem, seg_clean, b.tr) ELSE mem,
             IF Truthy(b.tr) THEN DictSet(cache, seg_clean, b.tr) ELSE cache)
         EXCEPT !.asked = <<BackendCall(seg_clean, b, TRUE)>>]

\* translate_segment from its look-up in the cache on
TranslateClean(seg_clean, mem, cache, run) ==
    IF DictHas(cache, seg_clean)
    THEN Outcome(DictGet(cache, seg_clean, None), None, mem, cache)
    ELSE IF mem /= <<>> /\ DictHas(mem, seg_clean)
    THEN Outcome(DictGet(mem, seg_clean, None), None, mem,
                 DictSet(cache, seg_clean, DictGet(mem, seg_clean, None)))
    ELSE StoreSegment(_basic_translate(seg_clean, run), seg_clean, mem, cache)

\* the closure translate_segment of _auto_translate
translate_segment(seg, mem, cache, run) ==
    IF strip(seg) = <<>>
    THEN Outcome(seg, None, mem, cache)
    ELSE TranslateClean(strip(seg), mem, cache, run)

\* the body of the loop of smart_translate for the segment seg at index idx,
\* translate_func having returned r
StepSegment(st, idx, seg, r) ==
    [translated_segments |->
         IF Truthy(r.tr)
         THEN [st.translated_segments EXCEPT
                   ![idx] = <<SubSeq(seg, 1, Len(seg) - Len(lstrip(seg))) \o r.tr
                                  \o SubSeq(seg, Len(rstrip(seg)) + 1, Len(seg)),
                              FALSE>>]
         ELSE st.translated_segments,
     errors |-> IF Truthy(r.err) THEN Append(st.errors, r.err) ELSE st.errors,
     memory |-> r.memory,
     cache |-> r.cache,
     asked |-> st.asked \o r.asked]

\* the loop of smart_translate over text_segments from the n-th on, with
\* translate_func = translate_segment; the n-th segment is answered by runs[n]
RECURSIVE translate_text_segments(_, _, _, _, _)
translate_text_segments(segs, todo, st, runs, n) ==
    IF n > Len(todo) THEN st
    ELSE translate_text_segments(segs, todo,
             StepSegment(st, todo[n], segs[todo[n]][1],
                         translate_segment(strip(segs[todo[n]][1]), st.memory, st.cache,
                                           runs[n])),
             runs, n + 1)

\* the join and the return after the loop
SmartResult(st) ==
    [Outcome(Join([i \in 1..Len(st.translated_segments) |-> st.translated_segments[i][1]]),
             IF st.errors /= <<>> THEN st.errors[1] ELSE None,
             st.memory, st.cache)
         EXCEPT !.asked = st.asked]

\* smart_translate after parse_tagged_text returned segs
SmartParsed(t, segs, mem, cache, runs) ==
    IF AllTags(segs) \/ ~AnyTag(segs)
    THEN translate_segment(t, mem, cache, runs[1])
    ELSE IF text_segments(segs) = <<>>
    THEN Outcome(t, None, mem, cache)
    ELSE SmartResult(translate_text_segments(segs, text_segments(segs),
                         [translated_segments |-> segs, errors |-> <<>>,
                          memory |-> mem, cache |-> cache, asked |-> <<>>], runs, 1))

\* smart_translate(text, translate_segment) as one value
smart_translate(t, mem, cache, runs) ==
    IF t = <<>> \/ strip(t) = <<>>
    THEN Outcome(None, None, mem, cache)
    ELSE SmartParsed(t, parse_tagged_text(t), mem, cache, runs)

\* result, err = _basic_translate(text, ...) having returned b
PlainResult(b, x, mem, cache) ==
    [Outcome(b.tr, b.err, mem, cache) EXCEPT !.asked = <<BackendCall(x, b, FALSE)>>]

\* if result and memory is not None: memory[text] = result
RememberResult(r, x) ==
    [r EXCEPT !.memory = IF Truthy(r.tr) THEN DictSet(r.memory, x, r.tr) ELSE r.memory]

\* _auto_translate for the trimmed text x
AutoTrimmed(x, mem, cache, runs) ==
    IF x = <<>>
    THEN Outcome(None, None, mem, cache)
    ELSE IF mem /= <<>> /\ DictHas(mem, x)
    THEN Outcome(DictGet(mem, x, None), None, mem, cache)
    ELSE IF has_markup(x)
    THEN RememberResult(smart_translate(x, mem, cache, runs), x)
    ELSE RememberResult(PlainResult(_basic_translate(x, runs[1]), x, mem, cache), x)

_auto_translate(t, mem, cache, runs) == AutoTrimmed(TextOrEmpty(t), mem, cache, runs)

(***************************************************************************)
(* The automatic translation session of the application: a mod of the mods *)
(* folder is opened and its strings are loaded and pre-filled from the     *)
(* translation memory (App._load_strings), "translate all" fills the empty *)
(* entries (App._translate_all), and the batch translation processes every *)
(* mod of the folder (App._batch_translate).  The handlers run on the one  *)
(* thread of the user interface: a handler's loop is not interleaved with  *)
(* another handler.                                                        *)
(***************************************************************************)
\* "Hi <b>Bob": two literal segments around a tag
Hi_b_Bob == <<"H", "i", " ", "<", "b", ">", "B", "o", "b">>

\* "<b>Hi": a tag and a literal segment
b_Hi == <<"<", "b", ">", "H", "i">>

\* "<b>": markup only
b_tag == <<"<", "b", ">">>

LangLine(key, value) == key \o <<"=">> \o value

\* a mod with a plain and a marked-up string, the plain one translated already
GreetingMod ==
    <<"Server", "Languages", "en-US", "x.lang">> :>
            (LangLine(K_greeting, Hello) \o <<"\n">> \o LangLine(K_farewell, Hi_b_Bob))
        @@ <<"Server", "Languages", "ru-RU", "x.lang">> :> LangLine(K_greeting, Privet)

\* a mod whose strings share their segments with GreetingMod
TitleMod ==
    <<"Server", "Languages", "en-US", "x.lang">> :>
            (LangLine(K_title, Bob) \o <<"\n">> \o LangLine(K_items, b_Hi)
                 \o <<"\n">> \o LangLine(K_list, b_tag))

\* mm.scan_mods(mods_path): the archives of the mods folder, as their contents
Mods == <<GreetingMod, TitleMod>>

\* the most literal segments a source text of the mods has
MaxSegments == Len(text_segments(parse_tagged_text(Hi_b_Bob)))

BackendError1 == <<"e", "1">>

BackendError2 == <<"e", "2">>

\* what the four providers do during one call of _basic_translate
BackendRuns ==
    { <<ProviderReturns(<<"X">>), ProviderReturns(<<"X">>),
        ProviderReturns(<<"X">>), ProviderReturns(<<"X">>)>>,
      <<ProviderRaises(BackendError1), ProviderReturns(<<" ", "Y", " ">>),
        ProviderReturns(<<"X">>), ProviderReturns(<<"X">>)>>,
      <<ProviderRaises(BackendError1), ProviderRaises(BackendError2),
        ProviderRaises(BackendError2), ProviderRaises(BackendError2)>>,
      <<ProviderReturns(<<>>), ProviderReturns(None),
        ProviderReturns(<<" ">>), ProviderReturns(<<>>)>>,
      <<ProviderReturns(<<>>), ProviderRaises(<<>>),
        ProviderRaises(BackendError2), ProviderRaises(BackendError1)>> }

\* for r in rows: if r["source"] in memory: r["translated"] = memory[r["source"]]
PrefillFromMemory(rs, mem) ==
    [i \in 1..Len(rs) |->
        IF DictHas(mem, rs[i].source)
        THEN [rs[i] EXCEPT !.translated = DictGet(mem, rs[i].source, None)]
        ELSE rs[i]]

\* (r.get("translated") or "").strip()
TranslatedOrEmpty(r) == IF Truthy(r.translated) THEN strip(r.translated) ELSE <<>>

\* for r in rows: if (r.get("translated") or "").strip(): memory[r["source"]] = r["translated"]
RECURSIVE RememberRows(_, _, _)
RememberRows(mem, rs, n) ==
    IF n > Len(rs) THEN mem
    ELSE RememberRows(IF TranslatedOrEmpty(rs[n]) /= <<>>
                      THEN DictSet(mem, rs[n].source, rs[n].translated)
                      ELSE mem,
                      rs, n + 1)

\* the history after the calls of asked from the n-th on: a call made by
\* translate_segment counts as a repetition when the backend has translated
\* its segment before, and as a translation when it returns a text
RECURSIVE LogCalls(_, _, _)
LogCalls(log, asked, n) ==
    IF n > Len(asked) THEN log
    ELSE LogCalls(IF ~asked[n].segment THEN log
                  ELSE IF asked[n].text \in log.translated
                  THEN [log EXCEPT !.repeated = @ \cup {asked[n].text}]
                  ELSE IF Truthy(asked[n].tr)
                  THEN [log EXCEPT !.translated = @ \cup {asked[n].text}]
                  ELSE log,
                  asked, n + 1)

\* _save_translation_memory: the file holds the memory, or is left as it was
\* when writing it raises
_save_translation_memory(mem) == {mem, memory_file}

\* Bound on the translation handlers started in one run of the application
MaxHandlerRuns == 1

\* mm.extract_mod: the archive of the mod m is unpacked over what its
\* extracted directory holds
extract_mod(m) ==
    IF m \in DOMAIN extracted_dirs THEN Mods[m] @@ extracted_dirs[m] ELSE Mods[m]

\* _load_translation_memory at the start of a session: no memory file, or
\* the file an earlier session left, with the backend's translation of a text
StoredMemories == {<<>>, << <<Hello, <<"X">>>> >>}

InitAuto ==
    /\ tree = <<>>
    /\ translate_rows = <<>>
    /\ before = <<>>
    /\ saves = 0
    /\ save_ok = TRUE
    /\ pc = "list"
    /\ text = <<>>
    /\ TranslateIdle
    /\ memory_file \in StoredMemories
    /\ HandlersIdle
    /\ PackIdle
    /\ decision = FALSE

\* App._open_translate: a mod of the list is extracted and the translation
\* view is shown, empty
_open_translate ==
    /\ pc = "list"
    /\ \E m \in 1..Len(Mods) :
          /\ tree' = extract_mod(m)
          /\ extracted_dirs' = (m :> tree') @@ extracted_dirs
    /\ translate_rows' = <<>>
    /\ translate_entries' = <<>>
    /\ pc' = "extracted"
    /\ UNCHANGED <<before, saves, save_ok>>
    /\ attempts' = <<>>
    /\ UNCHANGED <<memory_file, memory, _segment_cache, row_idx, last_error, ok, fail,
                   message, mod_idx, batch_rows>>
    /\ UNCHANGED handler_runs
    /\ UNCHANGED call_vars
    /\ UNCHANGED pack_vars
    /\ UNCHANGED backend_calls

\* App._back_to_list
_back_to_list ==
    /\ pc \in {"extracted", "loaded"}
    /\ pc' = "list"
    /\ UNCHANGED file_vars
    /\ UNCHANGED window_vars
    /\ UNCHANGED pack_vars
    /\ UNCHANGED call_vars

\* App._load_strings: the strings are collected and pre-filled from the memory,
\* and an entry is made for each row
_load_strings ==
    /\ pc \in {"extracted", "loaded"}
    /\ \E rs \in {PrefillFromMemory(collect_all_strings(tree), memory_file)} :
          /\ translate_rows' = rs
          /\ translate_entries' =
                [i \in 1..Len(rs) |->
                    IF Truthy(rs[i].translated) THEN rs[i].translated ELSE <<>>]
    /\ pc' = "loaded"
    /\ UNCHANGED <<tree, before, saves, save_ok>>
    /\ attempts' = <<>>
    /\ UNCHANGED <<memory_file, memory, _segment_cache, row_idx, last_error, ok, fail,
                   message, mod_idx, batch_rows>>
    /\ UNCHANGED handler_runs
    /\ UNCHANGED extracted_dirs
    /\ UNCHANGED call_vars
    /\ UNCHANGED pack_vars
    /\ UNCHANGED backend_calls

\* App._translate_all up to its loop
_translate_all_begin ==
    /\ pc = "loaded"
    /\ handler_runs < MaxHandlerRuns
    /\ handler_runs' = handler_runs + 1
    /\ IF translate_rows = <<>> \/ Len(translate_entries) /= Len(translate_rows)
       THEN /\ message' = [NoMessage EXCEPT !.kind = "warning"]
            /\ UNCHANGED <<memory, row_idx, last_error, ok, fail, attempts, pc>>
       ELSE /\ memory' = memory_file
            /\ row_idx' = 1
            /\ last_error' = None
            /\ ok' = 0
            /\ fail' = 0
            /\ attempts' = <<>>
            /\ message' = NoMessage
            /\ pc' = "translate_all"
    /\ UNCHANGED <<memory_file, _segment_cache, translate_entries, mod_idx, batch_rows>>
    /\ UNCHANGED file_vars
    /\ UNCHANGED extracted_dirs
    /\ UNCHANGED call_vars
    /\ UNCHANGED pack_vars
    /\ UNCHANGED backend_calls

\* one iteration of "for r, e in zip(self._translate_rows, self._translate_entries)"
_translate_all_entry ==
    /\ pc = "translate_all"
    /\ row_idx <= Len(translate_rows)
    /\ IF \/ strip(translate_entries[row_idx]) /= <<>>
          \/ TextOrEmpty(translate_rows[row_idx].source) = <<>>
       THEN UNCHANGED <<memory, _segment_cache, translate_entries, last_error, ok, fail,
                        attempts, backend_calls>>
       ELSE \E r \in {_auto_translate(TextOrEmpty(translate_rows[row_idx].source), memory,
                                      _segment_cache, runs) :
                          runs \in [1..MaxSegments -> BackendRuns]} :
               /\ memory' = r.memory
               /\ _segment_cache' = r.cache
               /\ last_error' = IF Truthy(r.err) THEN r.err ELSE last_error
               /\ translate_entries' =
                     IF Truthy(r.tr)
                     THEN [translate_entries EXCEPT ![row_idx] = r.tr]
                     ELSE translate_entries
               /\ ok' = IF Truthy(r.tr) THEN ok + 1 ELSE ok
               /\ fail' = IF Truthy(r.tr) THEN fail ELSE fail + 1
               /\ attempts' = Append(attempts, [row |-> row_idx, tr |-> r.tr, err |-> r.err])
               /\ backend_calls' = LogCalls(backend_calls, r.asked, 1)
    /\ row_idx' = row_idx + 1
    /\ UNCHANGED <<memory_file, message, mod_idx, batch_rows, pc>>
    /\ UNCHANGED file_vars
    /\ UNCHANGED handler_runs
    /\ UNCHANGED extracted_dirs
    /\ UNCHANGED call_vars
    /\ UNCHANGED pack_vars

\* App._translate_all after its loop: the memory is saved and the outcome shown
_translate_all_end ==
    /\ pc = "translate_all"
    /\ row_idx > Len(translate_rows)
    /\ memory_file' \in _save_translation_memory(memory)
    /\ message' = [kind |-> "info", ok |-> ok, fail |-> fail,
                   error |-> IF fail > 0 /\ Truthy(last_error) THEN last_error ELSE None]
    /\ pc' = "loaded"
    /\ UNCHANGED <<memory, _segment_cache, translate_entries, row_idx, last_error, ok, fail,
                   mod_idx, batch_rows, attempts>>
    /\ UNCHANGED file_vars
    /\ UNCHANGED handler_runs
    /\ UNCHANGED extracted_dirs
    /\ UNCHANGED call_vars
    /\ UNCHANGED pack_vars
    /\ UNCHANGED backend_calls

\* App._batch_translate up to its loop over the mods
_batch_translate_begin ==
    /\ pc = "list"
    /\ handler_runs < MaxHandlerRuns
    /\ handler_runs' = handler_runs + 1
    /\ IF Mods = <<>>
       THEN /\ message' = [NoMessage EXCEPT !.kind = "no mods"]
            /\ UNCHANGED <<ok, fail, mod_idx, attempts, pc>>
       ELSE /\ ok' = 0
            /\ fail' = 0
            /\ mod_idx' = 1
            /\ attempts' = <<>>
            /\ message' = NoMessage
            /\ pc' = "batch"
    /\ UNCHANGED <<memory_file, memory, _segment_cache, translate_entries, row_idx,
                   last_error, batch_rows>>
    /\ UNCHANGED file_vars
    /\ UNCHANGED extracted_dirs
    /\ UNCHANGED call_vars
    /\ UNCHANGED pack_vars
    /\ UNCHANGED backend_calls

\* one iteration of "for mod in mods" up to the loop over need_tr: the mod is
\* extracted, its strings are collected and pre-filled from the memory
_batch_translate_mod ==
    /\ pc = "batch"
    /\ mod_idx <= Len(Mods)
    /\ tree' = extract_mod(mod_idx)
    /\ extracted_dirs' = (mod_idx :> tree') @@ extracted_dirs
    /\ memory' = memory_file
    /\ batch_rows' = PrefillFromMemory(collect_all_strings(tree'), memory_file)
    /\ row_idx' = 1
    /\ pc' = "batch_rows"
    /\ UNCHANGED <<translate_rows, before, saves, save_ok>>
    /\ UNCHANGED <<memory_file, _segment_cache, translate_entries, last_error, ok, fail,
                   message, mod_idx, attempts>>
    /\ UNCHANGED handler_runs
    /\ UNCHANGED call_vars
    /\ UNCHANGED pack_vars
    /\ UNCHANGED backend_calls

\* one row of the mod: "for r in need_tr", a row that has a translation not
\* being in need_tr
_batch_translate_row ==
    /\ pc = "batch_rows"
    /\ row_idx <= Len(batch_rows)
    /\ IF TranslatedOrEmpty(batch_rows[row_idx]) /= <<>>
       THEN UNCHANGED <<memory, _segment_cache, batch_rows, attempts, backend_calls>>
       ELSE \E r \in {_auto_translate(batch_rows[row_idx].source, memory, _segment_cache,
                                      runs) :
                          runs \in [1..MaxSegments -> BackendRuns]} :
               /\ memory' = r.memory
               /\ _segment_cache' = r.cache
               /\ batch_rows' =
                     IF Truthy(r.tr)
                     THEN [batch_rows EXCEPT ![row_idx].translated = r.tr]
                     ELSE batch_rows
               /\ attempts' = Append(attempts, [row |-> row_idx, tr |-> r.tr, err |-> r.err])
               /\ backend_calls' = LogCalls(backend_calls, r.asked, 1)
    /\ row_idx' = row_idx + 1
    /\ UNCHANGED <<memory_file, translate_entries, last_error, ok, fail, message, mod_idx,
                   pc>>
    /\ UNCHANGED file_vars
    /\ UNCHANGED handler_runs
    /\ UNCHANGED extracted_dirs
    /\ UNCHANGED call_vars
    /\ UNCHANGED pack_vars

\* the rest of the iteration: the memory is saved, the translations are
\* written and the mod is packed; packed tells whether mm.pack_mod succeeded
_batch_translate_pack ==
    /\ pc = "batch_rows"
    /\ row_idx > Len(batch_rows)
    /\ memory' = RememberRows(memory, batch_rows, 1)
    /\ memory_file' \in _save_translation_memory(memory')
    /\ \E r \in {save_all_translations(tree, batch_rows)}, packed \in BOOLEAN :
          /\ tree' = r.tree
          /\ extracted_dirs' = (mod_idx :> r.tree) @@ extracted_dirs
          /\ ok' = IF r.ok /\ packed THEN ok + 1 ELSE ok
          /\ fail' = IF r.ok THEN fail ELSE fail + 1
    /\ mod_idx' = mod_idx + 1
    /\ attempts' = <<>>
    /\ pc' = "batch"
    /\ UNCHANGED <<translate_rows, before, saves, save_ok>>
    /\ UNCHANGED <<_segment_cache, translate_entries, row_idx, last_error, message,
                   batch_rows>>
    /\ UNCHANGED handler_runs
    /\ UNCHANGED call_vars
    /\ UNCHANGED pack_vars
    /\ UNCHANGED backend_calls

\* App._batch_translate after its loop
_batch_translate_end ==
    /\ pc = "batch"
    /\ mod_idx > Len(Mods)
    /\ message' = [kind |-> "info", ok |-> ok, fail |-> fail, error |-> None]
    /\ pc' = "list"
    /\ UNCHANGED <<memory_file, memory, _segment_cache, translate_entries, row_idx,
                   last_error, ok, fail, mod_idx, batch_rows, attempts>>
    /\ UNCHANGED file_vars
    /\ UNCHANGED handler_runs
    /\ UNCHANGED extracted_dirs
    /\ UNCHANGED call_vars
    /\ UNCHANGED pack_vars
    /\ UNCHANGED backend_calls

NextAuto ==
    \/ _open_translate
    \/ _back_to_list
    \/ _load_strings
    \/ _translate_all_begin
    \/ _translate_all_entry
    \/ _translate_all_end
    \/ _batch_translate_begin
    \/ _batch_translate_mod
    \/ _batch_translate_row
    \/ _batch_translate_pack
    \/ _batch_translate_end

SpecAuto == InitAuto /\ [][NextAuto]_vars

(***************************************************************************)
(* mod_manager.pack_mod.  A file is the archive members written to it, and *)
(* whether the archive was closed after the last of them.  Each operation  *)
(* on the file system either succeeds or raises; which, is an input.       *)
(***************************************************************************)
\* an archive in the making that holds the members ms
OpenArchive(ms) == [members |-> ms, closed |-> FALSE, exists |-> TRUE]

\* the archive after ZipFile.close()
ClosedArchive(f) == [f EXCEPT !.closed = TRUE]

\* z.write(f, f.relative_to(extracted_path).as_posix())
ArchiveMember(tr, p) == <<p, tr[p]>>

\* the complete archive of the directory tr
ArchiveOf(tr) ==
    ClosedArchive(OpenArchive([i \in 1..Len(Listing(tr)) |-> ArchiveMember(tr, Listing(tr)[i])]))

\* the archive an earlier packing left at output_path
OldArchive == ArchiveOf(ManifestOnlyTree)

\* a temporary archive an earlier call left unfinished
StaleTemp == OpenArchive(<<>>)

\* the extracted directories that are packed
PackDirs == {<<>>, ManifestOnlyTree, LocaleTree}

InitPack ==
    /\ tree \in PackDirs
    /\ translate_rows = <<>>
    /\ before = <<>>
    /\ saves = 0
    /\ save_ok = TRUE
    /\ pc = "pack_mod"
    /\ text = <<>>
    /\ TranslateIdle
    /\ WindowIdle
    /\ decision = FALSE
    /\ output_file \in {NoFile, OldArchive}
    /\ temp_file \in {NoFile, StaleTemp}
    /\ backup_file = NoFile
    /\ pack_backup \in BOOLEAN
    /\ pack_todo = <<>>
    /\ pack_ret = "running"
    /\ output_before = output_file

\* if output_path.exists() and backup: the copy into backups/, made outside
\* the try block: an exception leaves pack_mod
pack_mod_backup ==
    /\ pc = "pack_mod"
    /\ IF output_file.exists /\ pack_backup
       THEN \/ /\ backup_file' = output_file
               /\ pc' = "pack_open"
               /\ UNCHANGED pack_ret
            \/ /\ pack_ret' = "raised"
               /\ pc' = "pack_done"
               /\ UNCHANGED backup_file
       ELSE /\ pc' = "pack_open"
            /\ UNCHANGED <<backup_file, pack_ret>>
    /\ UNCHANGED <<output_file, temp_file, pack_backup, pack_todo, output_before>>
    /\ UNCHANGED file_vars
    /\ UNCHANGED window_vars
    /\ UNCHANGED call_vars

\* zipfile.ZipFile(temp, "w", ...): the temporary file is created or
\* truncated, and extracted_path.rglob("*") is started
pack_mod_open ==
    /\ pc = "pack_open"
    /\ \/ /\ temp_file' = OpenArchive(<<>>)
          /\ pack_todo' = Listing(tree)
          /\ pc' = "pack_write"
       \/ /\ pc' = "pack_except"
          /\ UNCHANGED <<temp_file, pack_todo>>
    /\ UNCHANGED <<output_file, backup_file, pack_backup, pack_ret, output_before>>
    /\ UNCHANGED file_vars
    /\ UNCHANGED window_vars
    /\ UNCHANGED call_vars

\* one iteration of "for f in extracted_path.rglob("*")": z.write
pack_mod_write ==
    /\ pc = "pack_write"
    /\ pack_todo /= <<>>
    /\ \/ /\ temp_file' = OpenArchive(Append(temp_file.members,
                                             ArchiveMember(tree, Head(pack_todo))))
          /\ pack_todo' = Tail(pack_todo)
          /\ UNCHANGED pc
       \/ /\ pc' = "pack_except"
          /\ UNCHANGED <<temp_file, pack_todo>>
    /\ UNCHANGED <<output_file, backup_file, pack_backup, pack_ret, output_before>>
    /\ UNCHANGED file_vars
    /\ UNCHANGED window_vars
    /\ UNCHANGED call_vars

\* the end of the with block: ZipFile.close() writes the central directory
pack_mod_close ==
    /\ pc = "pack_write"
    /\ pack_todo = <<>>
    /\ \/ /\ temp_file' = ClosedArchive(temp_file)
          /\ pc' = "pack_replace"
       \/ /\ pc' = "pack_except"
          /\ UNCHANGED temp_file
    /\ UNCHANGED <<output_file, backup_file, pack_backup, pack_todo, pack_ret, output_before>>
    /\ UNCHANGED file_vars
    /\ UNCHANGED window_vars
    /\ UNCHANGED call_vars

\* temp.replace(output_path); return True
pack_mod_replace ==
    /\ pc = "pack_replace"
    /\ \/ /\ output_file' = temp_file
          /\ temp_file' = NoFile
          /\ pack_ret' = "True"
          /\ pc' = "pack_done"
       \/ /\ pc' = "pack_except"
          /\ UNCHANGED <<output_file, temp_file, pack_ret>>
    /\ UNCHANGED <<backup_file, pack_backup, pack_todo, output_before>>
    /\ UNCHANGED file_vars
    /\ UNCHANGED window_vars
    /\ UNCHANGED call_vars

\* except Exception: if temp.exists(): try temp.unlink() except: pass;
\* return False
pack_mod_except ==
    /\ pc = "pack_except"
    /\ \/ temp_file' = NoFile
       \/ temp_file.exists /\ UNCHANGED temp_file
    /\ pack_ret' = "False"
    /\ pc' = "pack_done"
    /\ UNCHANGED <<output_file, backup_file, pack_backup, pack_todo, output_before>>
    /\ UNCHANGED file_vars
    /\ UNCHANGED window_vars
    /\ UNCHANGED call_vars

NextPack ==
    \/ pack_mod_backup
    \/ pack_mod_open
    \/ pack_mod_write
    \/ pack_mod_close
    \/ pack_mod_replace
    \/ pack_mod_except

SpecPack == InitPack /\ [][NextPack]_vars

(***************************************************************************)
(* The calls of _auto_translate of one process, whatever handler makes     *)
(* them: each call gets the memory dict its caller holds, which is the one *)
(* the call before left or one loaded anew from a file that does not have  *)
(* what was translated since.                                              *)
(***************************************************************************)
\* "<b> Hi ": the literal segment of b_Hi between spaces
b_Hi_spaced == <<"<", "b", ">", " ", "H", "i", " ">>

\* the texts _auto_translate is called with
AutoTexts == {Hi_b_Bob, b_Hi, b_Hi_spaced, Bob, b_tag}

\* Bound on the calls of _auto_translate
MaxAutoCalls == 3

InitSegments ==
    /\ tree = <<>>
    /\ translate_rows = <<>>
    /\ before = <<>>
    /\ saves = 0
    /\ save_ok = TRUE
    /\ pc = "auto_translate"
    /\ text = <<>>
    /\ TranslateIdle
    /\ WindowIdle
    /\ PackIdle
    /\ decision = FALSE

\* one call tr, err = _auto_translate(t, "en", "ru", memory=mem); attempts
\* holds the call made last
auto_translate_call ==
    /\ pc = "auto_translate"
    /\ row_idx < MaxAutoCalls
    /\ \E t \in AutoTexts, mem \in {memory, memory_file} :
          \E r \in {_auto_translate(t, mem, _segment_cache, runs) :
                        runs \in [1..MaxSegments -> BackendRuns]} :
             /\ memory' = r.memory
             /\ _segment_cache' = r.cache
             /\ backend_calls' = LogCalls(backend_calls, r.asked, 1)
             /\ attempts' = <<[text |-> t, given |-> mem, tr |-> r.tr, err |-> r.err,
                               asked |-> r.asked]>>
    /\ row_idx' = row_idx + 1
    /\ UNCHANGED <<memory_file, translate_entries, last_error, ok, fail, message, mod_idx,
                   batch_rows, handler_runs, extracted_dirs, pc>>
    /\ UNCHANGED file_vars
    /\ UNCHANGED pack_vars
    /\ UNCHANGED call_vars

NextSegments == auto_translate_call

SpecSegments == InitSegments /\ [][NextSegments]_vars

(***************************************************************************)
(* Properties of the tokenizer and of smart_translate                     *)
(***************************************************************************)
Contents(segs) == [i \in 1..Len(segs) |-> segs[i][1]]

TagContents(segs) == Contents(SelectSeq(segs, LAMBDA sg : sg[2]))

\* s[from..] starts with w
StartsAt(s, from, w) ==
    /\ from + Len(w) - 1 <= Len(s)
    /\ \A j \in 1..Len(w) : s[from + j - 1] = w[j]

\* the words ws occur in s from position from on, one after the other, in order
RECURSIVE ContainsInOrder(_, _, _)
ContainsInOrder(s, from, ws) ==
    IF ws = <<>> THEN TRUE
    ELSE LET at == {i \in from..Len(s) : StartsAt(s, i, Head(ws))} IN
         /\ at /= {}
         /\ ContainsInOrder(s, Min(at) + Len(Head(ws)), Tail(ws))

\* the leading and the trailing whitespace of a segment, counted directly
LeadingWs(sg) ==
    LET stop == {i \in 1..Len(sg) : ~IsSpace(sg[i])} IN
    IF stop = {} THEN sg ELSE SubSeq(sg, 1, Min(stop) - 1)

TrailingWs(sg) ==
    LET stop == {i \in 1..Len(sg) : ~IsSpace(sg[i])} IN
    IF stop = {} THEN <<>>
    ELSE SubSeq(sg, (CHOOSE i \in stop : \A j \in stop : j <= i) + 1, Len(sg))

Core(sg) == SubSeq(sg, Len(LeadingWs(sg)) + 1, Len(sg) - Len(TrailingWs(sg)))

IsBlankStr(sg) == \A i \in 1..Len(sg) : IsSpace(sg[i])

\* the literal segments with non-whitespace content, by index, in order
LiteralsWithContent(segs) ==
    SelectSeq([i \in 1..Len(segs) |-> i],
              LAMBDA i : segs[i][2] = FALSE /\ ~IsBlankStr(segs[i][1]))

InRange(sq) == {sq[i] : i \in 1..Len(sq)}

MixedDone == pc = "done" /\ path = "mixed"

\* C1: concatenating the contents of the segments of parse_tagged_text(s), in
\* order, gives s back; the empty string gives the empty list.
C1_RoundTrip ==
    pc = "parsed" =>
        /\ Join(Contents(segments)) = text
        /\ (text = <<>> => segments = <<>>)

C1_Witness ==
    /\ pc = "parsed"
    /\ Len(segments) >= 3
    /\ segments[Len(segments)][2] = FALSE
    /\ \E i \in 1..Len(segments) : segments[i][2]

\* C2: when s holds at least one markup token, the text smart_translate
\* returns holds every markup segment of parse_tagged_text(s) verbatim, in
\* the original order, whatever the translate function answers.
C2_MarkupPreserved ==
    (pc = "done" /\ path /= "blank" /\ AnyTag(segments)) =>
        ContainsInOrder(result, 1, TagContents(segments))

\* C8: a non-blank text made of markup segments only is returned unchanged
\* with no error, whatever the translate function answers.
C8_MarkupOnlyUnchanged ==
    (pc = "done" /\ path /= "blank" /\ segments /= <<>> /\ AllTags(segments)) =>
        (result = text /\ error = None)

\* C9 as stated: in the mixed path the returned error is the first non-null
\* error of the translate calls in segment order (null if none).
C9_FirstNonNullError ==
    MixedDone =>
        LET nn == {j \in 1..Len(calls) : calls[j].err /= None} IN
        error = IF nn = {} THEN None ELSE calls[Min(nn)].err

\* C9 amended: in the mixed path the returned error is the first non-empty
\* error of the translate calls in segment order (null if there is none; an
\* empty-string error counts as no error); the reassembled text is still
\* returned: a segment whose translation came back non-empty is replaced, a
\* segment whose translation came back null or empty keeps its original
\* text, and markup is unchanged.
C9_FirstError ==
    MixedDone =>
        LET ne == {j \in 1..Len(calls) : calls[j].err /= None /\ calls[j].err /= <<>>}
            lit == LiteralsWithContent(segments)
        IN  /\ error = IF ne = {} THEN None ELSE calls[Min(ne)].err
            /\ result /= None
            /\ result = Join(Contents(translated_segments))
            /\ Len(translated_segments) = Len(segments)
            /\ \A i \in 1..Len(segments) :
                 segments[i][2] => translated_segments[i] = segments[i]
            /\ \A j \in 1..Len(lit) :
                 IF j <= Len(calls) /\ calls[j].tr /= None /\ calls[j].tr /= <<>>
                 THEN ContainsInOrder(translated_segments[lit[j]][1], 1, <<calls[j].tr>>)
                 ELSE translated_segments[lit[j]] = segments[lit[j]]

C9_Witness ==
    /\ MixedDone
    /\ Len(calls) >= 2
    /\ calls[1].tr = <<"X">> /\ calls[1].err = <<>>
    /\ calls[2].tr = None /\ calls[2].err = <<"e", "2">>
    /\ error = <<"e", "2">>

\* C10: in the mixed path translate_func is called exactly once per literal
\* segment with non-whitespace content, in segment order, with the segment
\* stripped; a translated core is put back between the segment's own leading
\* and trailing whitespace; whitespace-only literals and markup are never
\* passed to it and are unchanged in the result.
C10_CallsAndWhitespace ==
    MixedDone =>
        LET lit == LiteralsWithContent(segments) IN
        /\ Len(calls) = Len(lit)
        /\ \A j \in 1..Len(lit) :
             /\ calls[j].arg = Core(segments[lit[j]][1])
             /\ Truthy(calls[j].tr) =>
                  translated_segments[lit[j]][1] =
                      LeadingWs(segments[lit[j]][1]) \o calls[j].tr
                          \o TrailingWs(segments[lit[j]][1])
        /\ \A i \in 1..Len(segments) :
             i \notin InRange(lit) => translated_segments[i] = segments[i]
        /\ result = Join(Contents(translated_segments))

C10_Witness ==
    /\ MixedDone
    /\ \E i \in 1..Len(segments) : segments[i][2] = FALSE /\ IsBlankStr(segments[i][1])
    /\ \E j \in 1..Len(calls) :
         /\ Truthy(calls[j].tr)
         /\ LeadingWs(segments[LiteralsWithContent(segments)[j]][1]) /= <<>>
         /\ TrailingWs(segments[LiteralsWithContent(segments)[j]][1]) /= <<>>
    /\ Len(calls) >= 2

(***************************************************************************)
(* Properties of the source filter.  The seven rules of the specification *)
(* are read on the text with its leading and trailing whitespace removed. *)
(***************************************************************************)
Trimmed(t) == Core(t)

IsLetterCh(c) == c \in LowerLetters \/ c \in UpperLetters

NoSpaceOrNewline(s) == \A i \in 1..Len(s) : s[i] /= " " /\ s[i] /= "\n"

\* rule 1
R1(t) == \A i \in 1..Len(t) : IsSpace(t[i])

\* rule 2
R2(s) ==
    /\ \E i \in 1..Len(s) : s[i] = "{"
    /\ \E i \in 1..Len(s) : s[i] = "}"
    /\ \E i \in 1..Len(s) :
         /\ s[i] = "{"
         /\ i < Len(s)
         /\ (IsLetterCh(s[i + 1]) \/ s[i + 1] = "_" \/ s[i + 1] = "%")

\* rule 3
R3(s) ==
    \E i \in 1..Len(s) : i < Len(s) /\ s[i] = "%" /\ s[i + 1] \in {"s", "d", "("}

\* rule 4 as stated: immediately adjacent
R4_adjacent(s) ==
    \E i \in 1..Len(s) :
        /\ i < Len(s)
        /\ \/ s[i] = "_" /\ s[i + 1] = "}"
           \/ s[i] = "{" /\ s[i + 1] = "_"

\* rule 4 amended: whitespace may stand between the two characters
R4_spaced(s) ==
    \E i \in 1..Len(s) : \E j \in 1..Len(s) :
        /\ i < j
        /\ \A m \in 1..Len(s) : (i < m /\ m < j) => IsSpace(s[m])
        /\ \/ s[i] = "_" /\ s[j] = "}"
           \/ s[i] = "{" /\ s[j] = "_"

\* rule 5
R5(s) == {i \in 1..Len(s) : s[i] \notin {"_", " ", "\n"}} = {}

\* rule 6
R6(s) ==
    /\ NoSpaceOrNewline(s)
    /\ \E i \in 1..Len(s) : s[i] = "_"
    /\ \A i \in 1..Len(s) : IsLetterCh(s[i]) \/ s[i] \in Digits \/ s[i] = "_"

\* s is two or more copies of a shorter substring
IsRepetition(s) ==
    \E n \in 1..Len(s) :
        /\ n < Len(s)
        /\ Len(s) % n = 0
        /\ \A i \in 1..Len(s) : s[i] = s[((i - 1) % n) + 1]

\* rule 7
R7(s) ==
    /\ NoSpaceOrNewline(s)
    /\ Len(s) >= 2
    /\ \A i \in 1..Len(s) : IsLetterCh(s[i])
    /\ IsRepetition(s)

\* C6 as stated: the filter answers true exactly when one of the seven rules
\* holds, rule 4 being "_" immediately before "}" or "{" immediately before "_".
C6_SevenRulesAsStated ==
    pc = "filtered" =>
        LET s == Trimmed(text) IN
        decision = (R1(text) \/ R2(s) \/ R3(s) \/ R4_adjacent(s) \/ R5(s) \/ R6(s) \/ R7(s))

\* C6 amended: the filter answers true exactly when one of the seven rules
\* holds on the trimmed text, rule 4 being "_" followed by optional
\* whitespace and "}", or "{" followed by optional whitespace and "_".
C6_SevenRules ==
    pc = "filtered" =>
        LET s == Trimmed(text) IN
        decision = (R1(text) \/ R2(s) \/ R3(s) \/ R4_spaced(s) \/ R5(s) \/ R6(s) \/ R7(s))

C6_Witness ==
    /\ pc = "filtered"
    /\ text = <<"s", "_", " ", "}">>
    /\ decision = TRUE
    /\ ~R4_adjacent(text)

\* C7: a trimmed text without spaces or newlines, alphabetic and of length
\* >= 2, is skipped when it is two or more copies of a shorter substring; an
\* alphabetic word that is no such repetition is not skipped; "AliveAlive"
\* is skipped and "Alive" is not.
C7_RepeatedWord ==
    pc = "filtered" =>
        LET s == Trimmed(text)
            word == s /= <<>> /\ \A i \in 1..Len(s) : IsLetterCh(s[i])
        IN  /\ (word /\ Len(s) >= 2 /\ IsRepetition(s)) => decision = TRUE
            /\ (word /\ ~IsRepetition(s)) => decision = FALSE
            /\ text = Alive \o Alive => decision = TRUE
            /\ text = Alive => decision = FALSE

C7_Witness ==
    /\ pc = "filtered"
    /\ text = Alive \o Alive
    /\ decision = TRUE

(***************************************************************************)
(* Properties of the collector and of the writer                          *)
(***************************************************************************)
RuLangX == <<"Server", "Languages", "ru-RU", "x.lang">>

\* the row carries a translation that the writer does not skip
HasTranslation(r) == r.translated /= None /\ strip(r.translated) /= <<>>

\* the keys of the file named name that a translated locale entry targets
TargetedKeys(name) ==
    {translate_rows[i].key :
        i \in {j \in 1..Len(translate_rows) :
                  /\ translate_rows[j].type = "lang"
                  /\ Last(translate_rows[j].file_rel) = name
                  /\ HasTranslation(translate_rows[j])}}

\* the lines of a locale file
LinesOf(content) == {SplitLines(content)[i] : i \in 1..Len(SplitLines(content))}

\* C3: a second save of the same entries leaves every file of the tree as the
\* first save left it
C3_SecondSaveIdentical == (pc = "loaded" /\ saves >= 2) => tree = before

\* C4: a save keeps every key=value pair of a ru-RU locale file that no
\* translated entry targets; in the locale scenario the ru-RU file then holds
\* both farewell=Poka and greeting=Privet
C4_MergePreserving ==
    (pc = "loaded" /\ saves >= 1) =>
        /\ \A p \in {q \in DOMAIN before : IsUnder(q, RuDir)} :
              /\ p \in DOMAIN tree
              /\ LET old == parse_lang_content(before[p])
                     new == parse_lang_content(tree[p])
                 IN  \A n \in 1..Len(old) :
                        old[n][1] \notin TargetedKeys(Last(p)) =>
                            /\ DictHas(new, old[n][1])
                            /\ DictGet(new, old[n][1], None) = old[n][2]
        /\ (before = LocaleTree /\ strip(translate_rows[1].translated) = Privet) =>
              LinesOf(tree[RuLangX]) = {LangFarewell, K_greeting \o <<"=">> \o Privet}

C4_Witness ==
    /\ pc = "loaded"
    /\ saves = 1
    /\ before = LocaleTree
    /\ translate_rows[1].key = K_greeting
    /\ translate_rows[1].translated = Privet
    /\ LangFarewell \in LinesOf(tree[RuLangX])
    /\ (K_greeting \o <<"=">> \o Privet) \in LinesOf(tree[RuLangX])

\* C5: the catalogue collected from the tree that holds manifest.json alone has
\* exactly one entry for Name, with source "Test Sword", and none for
\* Description
C5_ManifestScenario ==
    (pc = "loaded" /\ saves = 0 /\ tree = ManifestOnlyTree) =>
        /\ Cardinality({i \in 1..Len(translate_rows) : translate_rows[i].key = K_Name}) = 1
        /\ \A i \in 1..Len(translate_rows) :
              /\ translate_rows[i].key = K_Name => translate_rows[i].source = Test_Sword
              /\ translate_rows[i].key /= K_Description

(***************************************************************************)
(* Properties of _is_translation_key                                       *)
(***************************************************************************)
KeyChar(c) == IsAlnum(c) \/ c \in {"_", "-"}

\* the parts of the trimmed text between its dots
DotParts(t) == Split(strip(t), ".")

\* the trimmed text has no space and at least two parts
KeyShaped(t) == ~(\E i \in 1..Len(strip(t)) : strip(t)[i] = " ") /\ Len(DotParts(t)) >= 2

\* C11 as stated: a key is a trimmed text without space, of at least two
\* parts, each part made of alphanumerics, underscores or hyphens only (a part
\* of underscores or hyphens alone counts)
C11_KeyAsStated ==
    pc = "keyed" =>
        (decision <=>
            /\ KeyShaped(text)
            /\ \A i \in 1..Len(DotParts(text)) :
                  \A n \in 1..Len(DotParts(text)[i]) : KeyChar(DotParts(text)[i][n]))

\* C11: a key is a trimmed text without space, of at least two parts, each
\* part made of alphanumerics, underscores or hyphens only and holding at
\* least one alphanumeric
C11_Key ==
    pc = "keyed" =>
        (decision <=>
            /\ KeyShaped(text)
            /\ \A i \in 1..Len(DotParts(text)) :
                  /\ \E n \in 1..Len(DotParts(text)[i]) : IsAlnum(DotParts(text)[i][n])
                  /\ \A n \in 1..Len(DotParts(text)[i]) : KeyChar(DotParts(text)[i][n]))

C11_Witness == pc = "keyed" /\ text = <<"a", ".", "_">> /\ decision = FALSE

\* C12: no entry of the catalogue has a source that is a translation key
C12_NoKeySources ==
    pc = "loaded" =>
        \A i \in 1..Len(translate_rows) : ~_is_translation_key(translate_rows[i].source)

\* C13: within one catalogue no two entries of the same format share their
\* (file_rel, key), and no two UI entries share their (file_rel, source)
C13_UniqueKeys ==
    pc = "loaded" =>
        \A i, j \in 1..Len(translate_rows) :
            (i < j /\ translate_rows[i].type = translate_rows[j].type
                   /\ translate_rows[i].file_rel = translate_rows[j].file_rel) =>
                /\ translate_rows[i].key /= translate_rows[j].key
                /\ translate_rows[i].type = "ui" =>
                      translate_rows[i].source /= translate_rows[j].source

\* the place of a format in the canonical order
FormatRank(type) ==
    CASE type = "manifest" -> 1
      [] type = "lang" -> 2
      [] type = "common_json" -> 3
      [] type = "ui" -> 4
      [] type = "json" -> 5

\* C14: the catalogue lists manifest entries, then locale entries, then
\* structured translation entries, then UI entries, then generic JSON entries
C14_CanonicalOrder ==
    pc = "loaded" =>
        \A i, j \in 1..Len(translate_rows) :
            i < j => FormatRank(translate_rows[i].type) <= FormatRank(translate_rows[j].type)

C14_Witness ==
    /\ pc = "loaded"
    /\ Len(translate_rows) = 5
    /\ \A n \in 1..5 : FormatRank(translate_rows[n].type) = n

\* a translated structured translation entry has the key
CommonTargets(key) ==
    \E i \in 1..Len(translate_rows) :
        /\ translate_rows[i].type = "common_json"
        /\ translate_rows[i].key = key
        /\ HasTranslation(translate_rows[i])

\* C15: a save keeps in ru_RU.json every top-level key, and every key one
\* level below it, that no translated entry targets, with its value
C15_CommonMerge ==
    (pc = "loaded" /\ saves >= 1 /\ save_ok /\ RuJson \in DOMAIN before
        /\ before[RuJson].t = "obj") =>
        /\ RuJson \in DOMAIN tree
        /\ tree[RuJson].t = "obj"
        /\ \A n \in 1..Len(before[RuJson].v) :
              LET k == before[RuJson].v[n][1]
                  v == before[RuJson].v[n][2]
                  w == DictGet(tree[RuJson].v, k, Malformed)
              IN  ~CommonTargets(k) =>
                     IF v.t /= "obj" THEN w = v
                     ELSE /\ w.t = "obj"
                          /\ \A m \in 1..Len(v.v) :
                                ~CommonTargets(k \o <<".">> \o v.v[m][1]) =>
                                    DictGet(w.v, v.v[m][1], Malformed) = v.v[m][2]

\* the files that the writer is to write for a translated entry r: the file
\* of a manifest, UI or generic JSON entry, the ru-RU counterpart and the
\* default-locale file of a locale entry, ru_RU.json next to the file of a
\* structured translation entry
WriteTargets(r) ==
    CASE r.type = "lang" ->
            {lang_file_rel_to_ru(r.file_rel), RuToEn(lang_file_rel_to_ru(r.file_rel))}
      [] r.type = "common_json" ->
            {Append(SubSeq(r.file_rel, 1, Len(r.file_rel) - 1), "ru_RU.json")}
      [] OTHER -> {r.file_rel}

\* the files that differ between two trees
ChangedFiles(old, new) ==
    {p \in DOMAIN old \cup DOMAIN new :
        p \notin DOMAIN old \/ p \notin DOMAIN new \/ old[p] /= new[p]}

\* C16: a save creates or modifies only files that an entry with a non-blank
\* translation targets; when every translation is blank the tree is unchanged
C16_OnlyTargetsWritten ==
    (pc = "loaded" /\ saves >= 1) =>
        /\ \A p \in ChangedFiles(before, tree) :
              \E i \in 1..Len(translate_rows) :
                  HasTranslation(translate_rows[i]) /\ p \in WriteTargets(translate_rows[i])
        /\ (\A i \in 1..Len(translate_rows) : ~HasTranslation(translate_rows[i])) =>
              tree = before

C16_Witness ==
    /\ pc = "loaded"
    /\ saves = 1
    /\ Len(translate_rows) = 2
    /\ translate_rows[1].translated = <<" ">>
    /\ translate_rows[2].translated = <<>>
    /\ tree = before

\* the .lang files of the tree that lie in a locale directory other than ru-RU
SourceLangFiles ==
    {p \in DOMAIN tree : Len(p) = 4 /\ IsUnder(p, LangRoot) /\ p[3] /= "ru-RU"
                         /\ Last(p) \in LangFileNames}

\* the place of a locale directory in the sorted listing
LocaleRank(name) == CHOOSE n \in 1..Len(SortedLocales) : SortedLocales[n] = name

\* p lies in the first locale directory other than ru-RU
InFirstLocale(p) == \A q \in SourceLangFiles : LocaleRank(p[3]) <= LocaleRank(q[3])

\* the catalogue has the entry of the pair kv of the locale file p, pre-filled
\* from the ru-RU file of the same name
HasLangEntry(p, kv) ==
    LET ru == Append(RuDir, Last(p))
        prefill == IF ru \in DOMAIN tree /\ DictHas(parse_lang_content(tree[ru]), kv[1])
                   THEN DictGet(parse_lang_content(tree[ru]), kv[1], None)
                   ELSE None
    IN  \E i \in 1..Len(translate_rows) :
            translate_rows[i] = Row("lang", p, kv[1], kv[2], prefill)

\* every eligible pair of the locale file p has its entry
FileScanned(p) ==
    \A n \in 1..Len(parse_lang_content(tree[p])) :
        Collectable(parse_lang_content(tree[p])[n][2]) =>
            HasLangEntry(p, parse_lang_content(tree[p])[n])

\* C17 as stated: every .lang file of every locale directory other than ru-RU
\* has an entry, pre-filled from ru-RU, for each of its eligible pairs
C17_EveryLocaleScanned == pc = "loaded" => \A p \in SourceLangFiles : FileScanned(p)

\* C17: every .lang file of the first locale directory other than ru-RU, in
\* sorted order, has an entry, pre-filled from ru-RU, for each of its eligible
\* pairs, and no file of another locale directory has entries
C17_FirstLocaleScanned ==
    pc = "loaded" =>
        /\ \A p \in SourceLangFiles : InFirstLocale(p) => FileScanned(p)
        /\ \A i \in 1..Len(translate_rows) :
              translate_rows[i].type = "lang" =>
                  translate_rows[i].file_rel \in SourceLangFiles
                      /\ InFirstLocale(translate_rows[i].file_rel)

C17_Witness ==
    /\ pc = "loaded"
    /\ <<"Server", "Languages", "fr-FR", "x.lang">> \in DOMAIN tree
    /\ <<"Server", "Languages", "ru-RU", "x.lang">> \in DOMAIN tree
    /\ Len(translate_rows) = 1
    /\ translate_rows[1] =
          Row("lang", <<"Server", "Languages", "en-US", "x.lang">>, K_greeting, Hello, Privet)

\* the string-valued members of the objects of a JSON document, at any depth
RECURSIVE StringFields(_, _)
StringFields(obj, pth) ==
    IF obj.t = "obj"
    THEN UNION { LET k == obj.v[n][1]
                     v == obj.v[n][2]
                 IN  IF v.t = "str"
                     THEN {[path |-> Append(pth, PKey(k)), key |-> k, val |-> v.v]}
                     ELSE StringFields(v, Append(pth, PKey(k)))
                 : n \in 1..Len(obj.v) }
    ELSE IF obj.t = "arr"
    THEN UNION { StringFields(obj.v[n], Append(pth, PIdx(n - 1))) : n \in 1..Len(obj.v) }
    ELSE {}

\* every eligible string member of a generic JSON file whose key equals, case
\* ignored, one of the names has its entry
TextFieldsRecorded(names) ==
    \A n \in 1..Len(OtherJsonFiles(tree)) :
        LET p == OtherJsonFiles(tree)[n] IN
        \A f \in StringFields(tree[p], <<>>) :
            (/\ \E name \in names : Lower(f.key) = Lower(name)
             /\ strip(f.val) /= <<>>
             /\ Collectable(f.val))
            => \E i \in 1..Len(translate_rows) :
                   translate_rows[i] = Row("json", p, _path_to_key_str(f.path), f.val, None)

\* C18 as stated: an eligible string value is recorded whenever its key equals,
\* case ignored, one of the twelve listed names; every case variant matches
C18_EveryCaseVariant == pc = "loaded" => TextFieldsRecorded(JSON_TEXT_KEYS)

\* the same for the eleven names written in lower case
C18_LowerCaseNames ==
    pc = "loaded" =>
        TextFieldsRecorded(JSON_TEXT_KEYS \ {<<"d", "i", "s", "p", "l", "a", "y", "N", "a", "m", "e">>})

\* the extracted mod without the file p
WithoutFile(tr, p) == [q \in DOMAIN tr \ {p} |-> tr[q]]

\* the catalogue is the one of the mod without the malformed file p
FailingFileIgnored(p) ==
    /\ \A i \in 1..Len(translate_rows) : translate_rows[i].file_rel /= p
    /\ translate_rows = collect_all_strings(WithoutFile(tree, p))

\* C19 as stated: a file that fails to load contributes no entry and the
\* entries of the other files are those of the mod without the failing file
C19_FailingFileAbsent ==
    pc = "loaded" => \A p \in DOMAIN tree : tree[p] = Malformed => FailingFileIgnored(p)

\* the same for the malformed files outside the target-locale files
C19_SourceFileAbsent ==
    pc = "loaded" =>
        \A p \in DOMAIN tree \ {<<"Common", "Translations", "ru_RU.json">>} :
            tree[p] = Malformed => FailingFileIgnored(p)

(***************************************************************************)
(* Properties of pack_mod                                                  *)
(***************************************************************************)
\* the call of pack_mod has ended without returning True
PackFailed == pc = "pack_done" /\ pack_ret /= "True"

\* a failed call returns False
C22_ReturnsFalse == PackFailed => pack_ret = "False"

\* after a failed call the file at output_path is the one found there
C22_OutputKept == PackFailed => output_file = output_before

\* after a failed call there is no temporary file
C22_NoTempRemains == PackFailed => ~temp_file.exists

\* the file at output_path changes only into the complete archive of the
\* directory, closed in the temporary file before
C22_ReplacedAfterComplete ==
    [][output_file' /= output_file =>
           /\ temp_file = ArchiveOf(tree)
           /\ output_file' = temp_file]_vars

\* C22: if packing fails pack_mod returns False, an archive present at the
\* output path keeps its content and no temporary file remains; the output
\* path is replaced only after the complete temporary archive was written
C22_FailureLeavesNothing ==
    /\ []C22_ReturnsFalse
    /\ []C22_OutputKept
    /\ []C22_NoTempRemains
    /\ C22_ReplacedAfterComplete

(***************************************************************************)
(* Properties of the cache of segments                                     *)
(***************************************************************************)
\* every segment the backend translated is in the cache of segments
TranslatedSegmentsCached ==
    \A s \in backend_calls.translated : DictHas(_segment_cache, s)

\* the backend was never asked again for a segment it had translated
NoSegmentAskedAgain == backend_calls.repeated = {}

\* C23: once the backend has translated a trimmed segment, the segment is in
\* the cache and no later call asks the backend for it again: the backend
\* translates each distinct segment at most once
C23_SegmentTranslatedOnce == TranslatedSegmentsCached /\ NoSegmentAskedAgain

\* "<b> Hi " was translated without a call of the backend and with a memory
\* that does not have "Hi", the backend having translated "Hi" before
C23_Witness ==
    /\ pc = "auto_translate"
    /\ row_idx > 1
    /\ attempts /= <<>>
    /\ attempts[1].text = b_Hi_spaced
    /\ ~DictHas(attempts[1].given, <<"H", "i">>)
    /\ attempts[1].asked = <<>>
    /\ attempts[1].tr = <<"<", "b", ">", " ">> \o DictGet(_segment_cache, <<"H", "i">>, None)
    /\ <<"H", "i">> \in backend_calls.translated

(***************************************************************************)
(* Properties of the automatic translation handlers                       *)
(***************************************************************************)
\* "translate all" is running or has ended on the catalogue shown
TranslateAllSeen == pc = "translate_all" \/ (pc = "loaded" /\ attempts /= <<>>)

\* the attempts of the running handler that reported an error
FailedAttempts == {i \in 1..Len(attempts) : Truthy(attempts[i].err)}

\* in "translate all" the entry of every attempt that reported an error is
\* empty
C20_EntryStaysEmpty ==
    TranslateAllSeen =>
        \A i \in FailedAttempts : strip(translate_entries[attempts[i].row]) = <<>>

\* in the batch translation the row of every attempt that reported an error
\* has no translation
C20_BatchRowStaysEmpty ==
    pc = "batch_rows" =>
        \A i \in FailedAttempts : TranslatedOrEmpty(batch_rows[attempts[i].row]) = <<>>

\* in "translate all" the error of the latest failed attempt is kept, and it
\* is in the message shown when the handler has ended
C20_ErrorShown ==
    (TranslateAllSeen /\ FailedAttempts /= {}) =>
        /\ last_error = attempts[CHOOSE i \in FailedAttempts :
                                     \A j \in FailedAttempts : j <= i].err
        /\ pc = "loaded" => message.error = last_error

\* the handler goes on with the next entry after every attempt
C20_Continues ==
    pc \in {"translate_all", "batch_rows"} =>
        \A i \in 1..Len(attempts) : attempts[i].row < row_idx

\* C20: during "translate all" and batch translation an entry whose attempt
\* reported an error keeps an empty translation, the error is kept for display
\* and the handler continues with the next entry
C20_FailedEntryKeptEmpty ==
    /\ C20_EntryStaysEmpty
    /\ C20_BatchRowStaysEmpty
    /\ C20_ErrorShown
    /\ C20_Continues

\* the trimmed source of the row the running handler is at
AttemptSource ==
    IF pc = "translate_all"
    THEN TextOrEmpty(translate_rows[row_idx].source)
    ELSE TextOrEmpty(batch_rows[row_idx].source)

\* a step in which _auto_translate was called and reported an error
FailedAttemptStep ==
    /\ pc \in {"translate_all", "batch_rows"}
    /\ Len(attempts') = Len(attempts) + 1
    /\ Truthy(attempts'[Len(attempts')].err)

\* a call of _auto_translate that reported an error leaves no entry for its
\* text in the memory
C21_NoEntryAfterError ==
    [][FailedAttemptStep => ~DictHas(memory', AttemptSource)]_vars

\* a call of _auto_translate that reported an error and whose text has no
\* markup leaves the memory as it was
C21_PlainTextNoEntryAfterError ==
    [][(FailedAttemptStep /\ ~has_markup(AttemptSource)) => memory' = memory]_vars

\* the memory maps no string to itself
C21_NoSelfMapping == \A i \in 1..Len(memory) : memory[i][1] /= memory[i][2]

\* C21: the memory gains a mapping only after a successful translation: a text
\* whose attempt reported an error gets no entry from that attempt, and the
\* memory never maps a string to its own untranslated text
C21_MemoryOnlyAfterSuccess == C21_NoEntryAfterError /\ []C21_NoSelfMapping

(***************************************************************************)
(* Properties of the keys of generic JSON entries                          *)
(***************************************************************************)
\* the (path, value) pairs of the file p that the collector makes entries of
KeptPaths(tr, p) ==
    SelectSeq(IF tr[p].t = "bad" THEN <<>> ELSE _json_find_text_paths(tr[p], <<>>),
              LAMBDA f : strip(f.val) /= <<>> /\ Collectable(f.val))

\* the entries of the catalogue made of the file p, in the order of KeptPaths
JsonRowsOf(rs, p) == SelectSeq(rs, LAMBDA r : r.type = "json" /\ r.file_rel = p)

\* the document doc with the translations of the entries rs written at the
\* paths their sources were read from, from the n-th entry on
RECURSIVE WrittenAtPaths(_, _, _, _)
WrittenAtPaths(doc, kept, rs, n) ==
    IF n > Len(kept) THEN doc
    ELSE WrittenAtPaths(IF RowTr(rs[n]) /= <<>>
                        THEN _json_set_by_path(doc, kept[n].path, RowTr(rs[n])).v
                        ELSE doc,
                        kept, rs, n + 1)

\* the JSON files that only the generic JSON stage of the writer writes
GenericJsonFiles(tr) ==
    SelectSeq(OtherJsonFiles(tr), LAMBDA p : p \notin {<<"manifest.json">>, <<"pack.json">>})

\* the key of every generic JSON entry gives back the path of its source
C25_PathRecovered ==
    pc = "loaded" =>
        \A i \in 1..Len(GenericJsonFiles(tree)) :
            \A j \in 1..Len(KeptPaths(tree, GenericJsonFiles(tree)[i])) :
                _key_str_to_path(_path_to_key_str(
                    KeptPaths(tree, GenericJsonFiles(tree)[i])[j].path))
                  = KeptPaths(tree, GenericJsonFiles(tree)[i])[j].path

\* after the first save of a catalogue every generic JSON document holds the
\* translations at the places of their sources and is unchanged elsewhere
C25_WrittenInPlace ==
    (pc = "loaded" /\ saves = 1 /\ save_ok) =>
        \A i \in 1..Len(GenericJsonFiles(before)) :
            tree[GenericJsonFiles(before)[i]]
              = WrittenAtPaths(before[GenericJsonFiles(before)[i]],
                               KeptPaths(before, GenericJsonFiles(before)[i]),
                               JsonRowsOf(translate_rows, GenericJsonFiles(before)[i]), 1)

\* C25: for every generic JSON entry _key_str_to_path gives back from the key
\* exactly the path the source was read from, so that the save writes the
\* trimmed translation at that place and changes no other value
C25_KeyRoundTrip == C25_PathRecovered /\ C25_WrittenInPlace

(***************************************************************************)
(* Properties of the structured translation JSON round trip                *)
(***************************************************************************)
\* the catalogue rs has an entry for the same place as r whose translation
\* is the one written for r
ReadBack(rs, r) ==
    \E i \in 1..Len(rs) :
        /\ rs[i].type = r.type
        /\ rs[i].file_rel = r.file_rel
        /\ rs[i].key = r.key
        /\ rs[i].source = r.source
        /\ rs[i].translated = RowTr(r)

\* C26: after a save wrote a non-empty translation of a structured
\* translation JSON entry, collecting the tree again gives an entry with the
\* same file, key and source whose translation is the written one
C26_CommonReadBack ==
    (pc = "loaded" /\ saves >= 1 /\ save_ok) =>
        \A i \in 1..Len(translate_rows) :
            (translate_rows[i].type = "common_json" /\ RowTr(translate_rows[i]) /= <<>>)
                => ReadBack(collect_all_strings(tree), translate_rows[i])

\* the same for the entries whose key has no '.'
C26_UndottedReadBack ==
    (pc = "loaded" /\ saves >= 1 /\ save_ok) =>
        \A i \in 1..Len(translate_rows) :
            (/\ translate_rows[i].type = "common_json"
             /\ RowTr(translate_rows[i]) /= <<>>
             /\ IndexOf(translate_rows[i].key, <<".">>) = 0)
                => ReadBack(collect_all_strings(tree), translate_rows[i])

(***************************************************************************)
(* Properties of the places the locale entries are written to              *)
(***************************************************************************)
\* Server/Languages/ru-RU/<file>.lang for the locale file rel
RuTarget(rel) == <<"Server", "Languages", "ru-RU", Last(rel)>>

\* the value of key in the locale file p of the tree tr, None without one
LangValue(tr, p, key) ==
    IF p \in DOMAIN tr THEN DictGet(parse_lang_content(tr[p]), key, None) ELSE None

\* the translated locale entries of the catalogue
WrittenLangRows == TranslatedRows(translate_rows, "lang")

\* the translation of every translated locale entry is in ru-RU/<file>.lang
C27_WrittenToTarget ==
    (pc = "loaded" /\ saves >= 1 /\ save_ok) =>
        \A i \in 1..Len(WrittenLangRows) :
            LangValue(tree, RuTarget(WrittenLangRows[i].file_rel), WrittenLangRows[i].key)
              = RowTr(WrittenLangRows[i])

\* in the source-locale file of a translated locale entry the key of the
\* entry keeps its value, or gets the source text when it was missing
C27_SourceFileKept ==
    (pc = "loaded" /\ saves >= 1 /\ save_ok) =>
        \A i \in 1..Len(WrittenLangRows) :
            WrittenLangRows[i].file_rel /= RuTarget(WrittenLangRows[i].file_rel) =>
                LangValue(tree, WrittenLangRows[i].file_rel, WrittenLangRows[i].key)
                  \in {LangValue(before, WrittenLangRows[i].file_rel, WrittenLangRows[i].key),
                       WrittenLangRows[i].source}

\* a save of locale entries only creates no file but the ru-RU ones
C27_NoOtherPath ==
    (pc = "loaded" /\ saves >= 1 /\ save_ok) =>
        \A p \in DOMAIN tree \ DOMAIN before :
            \E i \in 1..Len(WrittenLangRows) : p = RuTarget(WrittenLangRows[i].file_rel)

\* C27: the translation of every locale entry, whatever the name of its source
\* locale directory, is written to Server/Languages/ru-RU/<file>.lang, and
\* neither into the source-locale file nor to any other path
C27_LangWrittenToRu == C27_WrittenToTarget /\ C27_SourceFileKept /\ C27_NoOtherPath

(***************************************************************************)
(* Properties of the casing aliases of the target-locale files             *)
(***************************************************************************)
\* the target-locale files the save of the catalogue writes
WrittenRuFiles ==
    {lang_file_rel_to_ru(WrittenLangRows[i].file_rel) : i \in 1..Len(WrittenLangRows)}

\* in the locale entries es every key that has a casing variant has it as a
\* key too, with the same value
AliasesAgree(es) ==
    \A i \in 1..Len(es) :
        _key_case_variant(es[i][1]) /= es[i][1] =>
            /\ DictHas(es, _key_case_variant(es[i][1]))
            /\ DictGet(es, _key_case_variant(es[i][1]), None) = es[i][2]

\* C28: after every save, in each target-locale file written every key with a
\* distinct casing variant has the variant beside it with the same value
C28_AliasesCurrent ==
    (pc = "loaded" /\ saves >= 1 /\ save_ok) =>
        \A p \in WrittenRuFiles : AliasesAgree(parse_lang_content(tree[p]))

\* after every save each key with a distinct casing variant has the variant
\* beside it
C28_AliasesPresent ==
    (pc = "loaded" /\ saves >= 1 /\ save_ok) =>
        \A p \in WrittenRuFiles :
            \A i \in 1..Len(parse_lang_content(tree[p])) :
                DictHas(parse_lang_content(tree[p]),
                        _key_case_variant(parse_lang_content(tree[p])[i][1]))

(***************************************************************************)
(* Properties of the pre-fill of a collected catalogue from the memory     *)
(***************************************************************************)
\* the rows rs hold the translation of every row of the fresh collection cs
\* that came with one from the target-locale file
KeepsCollected(cs, rs) ==
    /\ Len(rs) = Len(cs)
    /\ \A i \in 1..Len(cs) :
          Truthy(cs[i].translated) => rs[i].translated = cs[i].translated

\* the same, for the rows whose source the memory mem does not hold
KeepsUnremembered(cs, rs, mem) ==
    /\ Len(rs) = Len(cs)
    /\ \A i \in 1..Len(cs) :
          (Truthy(cs[i].translated) /\ ~DictHas(mem, cs[i].source))
              => rs[i].translated = cs[i].translated

\* after "load strings" every entry that the target-locale file pre-filled
\* holds that translation
C29_LoadKeepsTranslation ==
    pc = "loaded" => KeepsCollected(collect_all_strings(tree), translate_rows)

\* in batch translation every entry of the mod that the target-locale file
\* pre-filled holds that translation up to the write-back
C29_BatchKeepsTranslation ==
    pc = "batch_rows" => KeepsCollected(collect_all_strings(tree), batch_rows)

\* an entry pre-filled from the target-locale file keeps its translation when
\* the memory does not hold its source
C29_KeptWithoutMemory ==
    /\ pc = "loaded" =>
          KeepsUnremembered(collect_all_strings(tree), translate_rows, memory_file)
    /\ pc = "batch_rows" =>
          KeepsUnremembered(collect_all_strings(tree), batch_rows, memory_file)

\* C29: the pre-fill from the memory, on "load strings" and in batch
\* translation, fills only entries that are empty: an entry pre-filled from the
\* target-locale file keeps its translation
C29_PrefillOnlyEmpty ==
    C29_LoadKeepsTranslation /\ C29_BatchKeepsTranslation

====
